---- MODULE Spec2Model ----
(***************************************************************************)
(* Doctor GPT: the LangGraph workflow (lib/workflows/doctor-gpt-workflow), *)
(* the model repository's multi-model reasoning and the cost tracker.      *)
(* Strings are tuples of one-character strings, so that includes(),        *)
(* toLowerCase(), split() and length are computed, not assumed.            *)
(* Numbers with fractions are integers in thousandths (0.8 is 800).        *)
(***************************************************************************)
EXTENDS Integers, Sequences, FiniteSets, TLC

\* ------------------------------------------------------------------ bounds
\* the cost queue is flushed at this length (scaled down from the code's 50)
BatchSize == 2
\* the most well-formed documents a caller uploads with a request
MaxDocs == 1
\* the most timer-driven flushes in progress at once
MaxTimerFlushes == 1

\* the setBudget calls made
MaxSetBudgetCalls == 1

\* the trackCost calls a client of the ledger makes
MaxTrackCalls == 2

\* the chat requests that query the medical knowledge
MaxQueries == 2

\* the event streams a client opens
MaxConnects == 2

\* the updates sent to the event stream of a session
MaxUpdates == 3

\* the answers multiModelReasoning merges
MaxAnswers == 3

\* the citations of a list handed to the citation enhancer
MaxCitations == 2

\* the runs of the citation enhancer over a list
MaxEnhancerRuns == 2

\* ------------------------------------------------------------ string basics
\* "undefined" for a numeric field
Undef == -1

\* String.prototype.toLowerCase, for the upper-case letters the inputs use
LowerChar(c) ==
    CASE c = "I" -> "i" [] c = "W" -> "w" [] c = "T" -> "t" [] c = "M" -> "m"
      [] c = "S" -> "s" [] c = "R" -> "r" [] OTHER -> c

toLowerCase(s) == [i \in 1..Len(s) |-> LowerChar(s[i])]

\* String.prototype.includes
includes(s, t) ==
    \E i \in 0..(Len(s) - Len(t)) : SubSeq(s, i + 1, i + Len(t)) = t

\* Array.prototype.some over a tuple of terms
someIncluded(terms, s) == \E k \in 1..Len(terms) : includes(s, terms[k])

\* ------------------------------------------------------------------ inputs
\* the user queries a run is started with; NotAString is a userQuery that is
\* not a string (execute() takes a Partial state and casts it)
NotAString == <<"#not-a-string">>

QChestPain == <<"I"," ","h","a","v","e"," ","c","h","e","s","t"," ","p","a","i","n"," ","a","n","d"," ","s","h","o","r","t","n","e","s","s"," ","o","f"," ","b","r","e","a","t","h">>

QMetformin == <<"W","h","a","t"," ","a","r","e"," ","t","h","e"," ","s","i","d","e"," ","e","f","f","e","c","t","s"," ","o","f"," ","m","e","t","f","o","r","m","i","n","?">>

QSevereDrug == <<"W","h","i","c","h"," ","d","r","u","g"," ","h","e","l","p","s"," ","a"," ","s","e","v","e","r","e"," ","h","e","a","d","a","c","h","e","?">>

QTreatment == <<"T","r","e","a","t","m","e","n","t"," ","f","o","r"," ","d","i","a","b","e","t","e","s">>

QSymptoms == <<"M","y"," ","s","y","m","p","t","o","m","s"," ","k","e","e","p"," ","w","o","r","s","e","n","i","n","g">>

Queries == {QChestPain, QMetformin, QSevereDrug, QTreatment, QSymptoms, NotAString}

\* ---------------------------------------------------------- query analysis
symptomWord == <<"s","y","m","p","t","o","m">>

medicationWord == <<"m","e","d","i","c","a","t","i","o","n">>

drugWord == <<"d","r","u","g">>

treatmentWord == <<"t","r","e","a","t","m","e","n","t">>

\* detectIntent: keyword rules in order, each with its confidence
detectIntent(query) ==
    LET q == toLowerCase(query) IN
    IF includes(q, symptomWord)
    THEN [type |-> "symptom_inquiry", confidence |-> 800]
    ELSE IF includes(q, medicationWord) \/ includes(q, drugWord)
    THEN [type |-> "medication_question", confidence |-> 800]
    ELSE IF includes(q, treatmentWord)
    THEN [type |-> "treatment_options", confidence |-> 800]
    ELSE [type |-> "general_medical", confidence |-> 600]

urgentTerms ==
    << <<"e","m","e","r","g","e","n","c","y">>,
       <<"u","r","g","e","n","t">>,
       <<"s","e","v","e","r","e">>,
       <<"a","c","u","t","e">>,
       <<"c","h","e","s","t"," ","p","a","i","n">>,
       <<"d","i","f","f","i","c","u","l","t","y"," ","b","r","e","a","t","h","i","n","g">> >>

highTerms ==
    << <<"p","a","i","n">>,
       <<"s","e","v","e","r","e">>,
       <<"w","o","r","s","e","n","i","n","g">> >>

\* assessUrgency: the emergency terms are tried first, then the high terms
assessUrgency(query) ==
    LET q == toLowerCase(query) IN
    IF someIncluded(urgentTerms, q) THEN "emergency"
    ELSE IF someIncluded(highTerms, q) THEN "high"
    ELSE "medium"

requiresCitation(intent) ==
    intent.type \in {"treatment_options", "medication_question", "diagnosis_explanation"}

determineNextNodeAfterAnalysis(pq) ==
    IF pq.urgencyLevel = "emergency" THEN "multi_model_reasoning"
    ELSE "document_retrieval"

determineNextNodeAfterRetrieval(pq, documents) ==
    IF Len(documents) = 0 \/ pq.requiresCitation THEN "web_search"
    ELSE "multi_model_reasoning"

\* the ProcessedQuery queryAnalysisNode builds
analyse(query) ==
    LET intent == detectIntent(query) IN
    [intent |-> intent,
     urgencyLevel |-> assessUrgency(query),
     requiresCitation |-> requiresCitation(intent)]

\* ------------------------------------------------------------- web search
\* a URL is what `new URL(url)` makes of it: whether it parses, and its hostname
HostPubmed == <<"p","u","b","m","e","d",".","n","c","b","i",".","n","l","m",".","n","i","h",".","g","o","v">>

HostMayo == <<"w","w","w",".","m","a","y","o","c","l","i","n","i","c",".","o","r","g">>

HostNejm == <<"w","w","w",".","n","e","j","m",".","o","r","g">>

HostBlog == <<"h","e","a","l","t","h",".","e","x","a","m","p","l","e",".","o","r","g">>

Url(host) == [valid |-> TRUE, host |-> host]

\* a string that is no URL: `new URL` throws on it
BadUrl == [valid |-> FALSE, host |-> <<>>]

MEDICAL_DOMAINS ==
    << <<"p","u","b","m","e","d",".","n","c","b","i",".","n","l","m",".","n","i","h",".","g","o","v">>,
       <<"w","w","w",".","n","c","b","i",".","n","l","m",".","n","i","h",".","g","o","v">>,
       <<"c","l","i","n","i","c","a","l","t","r","i","a","l","s",".","g","o","v">>,
       <<"w","w","w",".","w","h","o",".","i","n","t">>,
       <<"w","w","w",".","c","d","c",".","g","o","v">>,
       <<"w","w","w",".","m","a","y","o","c","l","i","n","i","c",".","o","r","g">>,
       <<"w","w","w",".","c","l","e","v","e","l","a","n","d","c","l","i","n","i","c",".","o","r","g">>,
       <<"w","w","w",".","h","o","p","k","i","n","s","m","e","d","i","c","i","n","e",".","o","r","g">>,
       <<"w","w","w",".","n","i","h",".","g","o","v">>,
       <<"w","w","w",".","m","e","d","l","i","n","e","p","l","u","s",".","g","o","v">>,
       <<"w","w","w",".","u","p","t","o","d","a","t","e",".","c","o","m">>,
       <<"w","w","w",".","n","e","j","m",".","o","r","g">>,
       <<"w","w","w",".","t","h","e","l","a","n","c","e","t",".","c","o","m">>,
       <<"j","a","m","a","n","e","t","w","o","r","k",".","c","o","m">>,
       <<"w","w","w",".","b","m","j",".","c","o","m">>,
       <<"w","w","w",".","n","a","t","u","r","e",".","c","o","m">>,
       <<"w","w","w",".","s","c","i","e","n","c","e","d","i","r","e","c","t",".","c","o","m">>,
       <<"s","c","h","o","l","a","r",".","g","o","o","g","l","e",".","c","o","m">>,
       <<"w","w","w",".","c","o","c","h","r","a","n","e","l","i","b","r","a","r","y",".","c","o","m">>,
       <<"g","u","i","d","e","l","i","n","e","s",".","g","o","v">>,
       <<"w","w","w",".","a","a","f","p",".","o","r","g">>,
       <<"w","w","w",".","a","c","p","o","n","l","i","n","e",".","o","r","g">>,
       <<"w","w","w",".","a","m","a","-","a","s","s","n",".","o","r","g">> >>

endsWith(s, t) == Len(t) <= Len(s) /\ SubSeq(s, Len(s) - Len(t) + 1, Len(s)) = t

\* isTrustedMedicalDomain: false when the URL does not parse
isTrustedMedicalDomain(url) ==
    /\ url.valid
    /\ \E k \in 1..Len(MEDICAL_DOMAINS) :
          \/ url.host = MEDICAL_DOMAINS[k]
          \/ endsWith(url.host, <<".">> \o MEDICAL_DOMAINS[k])

tier1 == << <<"p","u","b","m","e","d">>,
       <<"n","e","j","m">>,
       <<"t","h","e","l","a","n","c","e","t">>,
       <<"b","m","j">> >>

tier2 == << <<"n","i","h",".","g","o","v">>,
       <<"c","d","c",".","g","o","v">>,
       <<"f","d","a",".","g","o","v">> >>

tier3 == << <<"m","a","y","o","c","l","i","n","i","c">>,
       <<"c","l","e","v","e","l","a","n","d","c","l","i","n","i","c">>,
       <<"h","o","p","k","i","n","s","m","e","d","i","c","i","n","e">> >>

tier4 == << <<"g","u","i","d","e","l","i","n","e","s",".","g","o","v">>,
       <<"c","o","c","h","r","a","n","e","l","i","b","r","a","r","y">> >>

tier5 == << <<"u","p","t","o","d","a","t","e">>,
       <<"m","e","d","l","i","n","e","p","l","u","s">> >>

\* getSourceReliabilityScore of a URL that parses (it throws on one that does not)
getSourceReliabilityScore(url) ==
    IF someIncluded(tier1, url.host) THEN 950
    ELSE IF someIncluded(tier2, url.host) THEN 900
    ELSE IF someIncluded(tier3, url.host) THEN 800
    ELSE IF someIncluded(tier4, url.host) THEN 850
    ELSE IF someIncluded(tier5, url.host) THEN 700
    ELSE 500

\* getMockSearchResults
MockSearchResults ==
    << [url |-> Url(HostPubmed), complete |-> TRUE, score |-> 900],
       [url |-> Url(HostMayo), complete |-> TRUE, score |-> 800],
       [url |-> Url(HostNejm), complete |-> TRUE, score |-> 700] >>

\* how the call of the search tool can end: there is no API key, the call
\* throws, its answer does not parse, its answer is an array of results, or its
\* answer parses to something that is no array
ProviderOutcomes == {"noKey", "failed", "unparsable", "parsed", "notArray"}

\* the outcomes in which the search provider failed
ProviderFailures == {"failed", "unparsable"}

\* the results the search tool answers with
ParsedResults ==
    << [url |-> Url(HostBlog), complete |-> TRUE, score |-> 1000],
       [url |-> Url(HostMayo), complete |-> TRUE, score |-> 900] >>

\* performSearch: the mock results without a key and when the call throws or its
\* answer does not parse
performSearch(outcome) ==
    IF outcome \in {"noKey", "failed", "unparsable"} THEN MockSearchResults
    ELSE IF outcome = "parsed" THEN ParsedResults
    ELSE <<>>

\* what performSearch can return
SearchOutcomes == {performSearch(o) : o \in ProviderOutcomes}

\* Array.prototype.sort((a, b) => b.score - a.score): stable, descending
RECURSIVE sortByScore(_)
sortByScore(s) ==
    IF s = <<>> THEN <<>>
    ELSE LET rest == sortByScore(Tail(s))
             k == Cardinality({i \in 1..Len(rest) : rest[i].score > Head(s).score})
         IN SubSeq(rest, 1, k) \o <<Head(s)>> \o SubSeq(rest, k + 1, Len(rest))

filterMedicalResults(results) ==
    LET whole(r) == r.complete
        trusted(r) == isTrustedMedicalDomain(r.url)
        kept == SelectSeq(SelectSeq(results, whole), trusted)
        scored == [i \in 1..Len(kept) |->
                     [kept[i] EXCEPT !.score =
                        (kept[i].score * getSourceReliabilityScore(kept[i].url)) \div 1000]]
        sorted == sortByScore(scored)
    IN SubSeq(sorted, 1, IF Len(sorted) < 10 THEN Len(sorted) ELSE 10)

convertToCitations(results) ==
    [i \in 1..Len(results) |-> [url |-> results[i].url, relevanceScore |-> results[i].score]]

\* a falsy relevanceScore: 0 or undefined
Falsy(n) == n = 0 \/ n = Undef

\* enhanceCitations throws when a citation without a score has a URL that
\* does not parse
enhanceCitationsThrows(cits) ==
    \E i \in 1..Len(cits) : Falsy(cits[i].relevanceScore) /\ ~cits[i].url.valid

\* an enhancer that weighs a score it finds with the reliability of the source
enhanceCitationsWeighing(cits) ==
    [i \in 1..Len(cits) |->
        [cits[i] EXCEPT !.relevanceScore =
            IF Falsy(cits[i].relevanceScore)
            THEN getSourceReliabilityScore(cits[i].url)
            ELSE (cits[i].relevanceScore * getSourceReliabilityScore(cits[i].url))
                     \div 1000]]

enhanceCitations(cits) ==
    [i \in 1..Len(cits) |->
        [cits[i] EXCEPT !.relevanceScore =
            IF Falsy(cits[i].relevanceScore)
            THEN getSourceReliabilityScore(cits[i].url)
            ELSE cits[i].relevanceScore]]

\* ------------------------------------------------------- model repository
\* the texts a provider answers with
AnsRest == <<"R","e","s","t"," ","a","n","d"," ","d","r","i","n","k"," ","p","l","e","n","t","y"," ","o","f"," ","f","l","u","i","d","s","."," ","S","e","e"," ","a"," ","d","o","c","t","o","r"," ","i","f"," ","i","t"," ","p","e","r","s","i","s","t","s",".">>

AnsDoctor == <<"S","e","e"," ","a"," ","d","o","c","t","o","r"," ","i","f"," ","i","t"," ","p","e","r","s","i","s","t","s","."," ","T","h","i","s"," ","i","s"," ","n","o","t"," ","a"," ","d","i","a","g","n","o","s","i","s",".">>

Contents == {AnsRest, AnsDoctor}

\* the confidence each provider's medicalComplete stamps on its answer
providerConfidence(name) ==
    CASE name = "openai" -> 800 [] name = "anthropic" -> 850 [] OTHER -> 800

\* the model name each provider's complete stamps on its answer
providerModel(name) ==
    CASE name = "openai" -> "gpt-4o-mini"
      [] name = "anthropic" -> "claude-3-5-sonnet-20241022"
      [] OTHER -> "mock-gpt-4"

\* the citations of a provider's medicalComplete: none, or the mock provider's two
providerCitations(name) ==
    IF name \in {"openai", "anthropic"} THEN <<>>
    ELSE << [url |-> Url(HostPubmed), relevanceScore |-> 850],
            [url |-> Url(HostMayo), relevanceScore |-> 750] >>

\* the recommendedActions of a provider's medicalComplete
providerActions(name) ==
    IF name \in {"openai", "anthropic"}
    THEN << "Consult with a healthcare professional",
            "Follow up with your primary care physician",
            "Monitor symptoms and seek immediate care if they worsen" >>
    ELSE << "This is a development environment",
            "Consult with a healthcare professional for real medical advice",
            "Configure real API keys in .env.local for production use" >>

\* provider.calculateCost(usage), in millionths of a dollar
calculateCost(name) ==
    CASE name = "openai" -> 300 [] name = "anthropic" -> 9000 [] OTHER -> 1

\* initializeProviders: the mock provider is registered only when neither
\* real provider is
initializeProviders(hasOpenAI, hasAnthropic) ==
    LET real == (IF hasOpenAI THEN {"openai"} ELSE {}) \cup
                (IF hasAnthropic THEN {"anthropic"} ELSE {})
    IN IF real = {} THEN {"local-mock"} ELSE real

\* a choice of providers that falls back to the enabled ones when none of the
\* named ones is registered
providersForOrEnabled(registered, providersToUse) ==
    LET known(name) == name \in registered
        named == SelectSeq(providersToUse, known)
        all == <<"openai", "anthropic", "local-mock">>
    IN IF named # <<>> THEN named ELSE SelectSeq(all, known)

\* providersToUse.map(getProvider).filter(Boolean)
providersFor(registered, providersToUse) ==
    LET known(name) == name \in registered IN SelectSeq(providersToUse, known)

IsDelim(c) == c \in {".", "!", "?"}

\* String.prototype.split(/[.!?]+/): the runs of other characters, with an
\* empty piece before a leading and after a trailing run of delimiters
split(s) ==
    LET n == Len(s)
        first(i) == ~IsDelim(s[i]) /\ (i = 1 \/ IsDelim(s[i - 1]))
        last(i) == ~IsDelim(s[i]) /\ (i = n \/ IsDelim(s[i + 1]))
        idx == [i \in 1..n |-> i]
        firsts == SelectSeq(idx, first)
        lasts == SelectSeq(idx, last)
        pieces == [k \in 1..Len(firsts) |-> SubSeq(s, firsts[k], lasts[k])]
    IN (IF n = 0 \/ IsDelim(s[1]) THEN << <<>> >> ELSE <<>>)
       \o pieces
       \o (IF n > 0 /\ IsDelim(s[n]) THEN << <<>> >> ELSE <<>>)

RECURSIVE trimStart(_)
trimStart(s) == IF s # <<>> /\ Head(s) = " " THEN trimStart(Tail(s)) ELSE s

RECURSIVE trimEnd(_)
trimEnd(s) ==
    IF s # <<>> /\ s[Len(s)] = " " THEN trimEnd(SubSeq(s, 1, Len(s) - 1)) ELSE s

trim(s) == trimEnd(trimStart(s))

\* v, evaluated once, handed to Body
With(v, Body(_)) == CHOOSE r \in {Body(x) : x \in {v}} : TRUE

\* content.split(/[.!?]+/).map(s => s.trim()).filter(s => s.length > 10)
sentencesOf(content) ==
    LET long(s) == Len(s) > 10
        trimmed(parts) == SelectSeq([i \in 1..Len(parts) |-> trim(parts[i])], long)
    IN With(split(content), trimmed)

RECURSIVE flatten(_)
flatten(ss) == IF ss = <<>> THEN <<>> ELSE Head(ss) \o flatten(Tail(ss))

\* findCommonPhrases: the sentences counted more than once over all answers,
\* in the order of their first occurrence
findCommonPhrases(contents) ==
    LET repeated(all) ==
            LET count(s) == Cardinality({i \in 1..Len(all) : all[i] = s})
                first(i) == \A j \in 1..(i - 1) : all[j] # all[i]
                keep(i) == first(i) /\ count(all[i]) > 1
                idx == SelectSeq([i \in 1..Len(all) |-> i], keep)
            IN [k \in 1..Len(idx) |-> all[idx[k]]]
    IN With(flatten([i \in 1..Len(contents) |-> sentencesOf(contents[i])]), repeated)

\* Array.prototype.join(' ')
RECURSIVE join(_)
join(ss) ==
    IF ss = <<>> THEN <<>>
    ELSE IF Len(ss) = 1 THEN Head(ss)
    ELSE Head(ss) \o <<" ">> \o join(Tail(ss))

RECURSIVE SumSeq(_)
SumSeq(ns) == IF ns = <<>> THEN 0 ELSE Head(ns) + SumSeq(Tail(ns))

Abs(n) == IF n < 0 THEN -n ELSE n

\* the bits of q
RECURSIVE bitLength(_)
bitLength(q) == IF q = 0 THEN 0 ELSE 1 + bitLength(q \div 2)

\* the long division r / n, carried on to the 53 bits of a double and rounded
\* to the nearest, ties to even: is the double below the quotient?
RECURSIVE roundsDownFrom(_, _, _, _)
roundsDownFrom(r, n, bits, last) ==
    IF r = 0 THEN FALSE
    ELSE LET b == (2 * r) \div n
             rest == (2 * r) % n
         IN IF bits < 53
            THEN roundsDownFrom(rest, n, IF bits > 0 \/ b = 1 THEN bits + 1 ELSE 0, b)
            ELSE IF b = 0 THEN TRUE
            ELSE IF rest > 0 THEN FALSE
            ELSE last = 0

\* avgLength = sum / n is a double: it is below the mean when the division
\* rounds down
meanRoundsDown(sum, n) ==
    roundsDownFrom(sum % n, n, bitLength(sum \div n), (sum \div n) % 2)

\* findDisagreements: Math.abs(l - avgLength) > avgLength * 0.5 for some length.
\* Both sides are exact in doubles but for avgLength, so that the comparison is
\* the one of the exact mean (both sides multiplied by 2n), except at a length
\* of exactly one and a half times the mean, where it holds when avgLength was
\* rounded down
findDisagreements(contents) ==
    LET lengths == [i \in 1..Len(contents) |-> Len(contents[i])]
        sum == SumSeq(lengths)
        n == Len(lengths)
        off(l) == \/ 2 * Abs(l * n - sum) > sum
                  \/ 2 * n * l = 3 * sum /\ meanRoundsDown(sum, n)
    IN IF \E i \in 1..n : off(lengths[i])
       THEN <<"Response lengths vary significantly between models">>
       ELSE <<>>

\* analyzeConsensus: <<>> is undefined (fewer than two responses)
analyzeConsensus(responses) ==
    IF Len(responses) < 2 THEN <<>>
    ELSE LET contents == [i \in 1..Len(responses) |-> responses[i].response.content]
             confs == [i \in 1..Len(responses) |->
                         IF Falsy(responses[i].response.confidence) THEN 500
                         ELSE responses[i].response.confidence]
         IN << [agreedContent |-> join(findCommonPhrases(contents)),
                confidence |-> SumSeq(confs) \div Len(responses),
                disagreements |-> findDisagreements(contents)] >>

\* a reduce that keeps the last response
bestResponseLatest(responses) == responses[Len(responses)]

\* responses.reduce: a later response wins only with a strictly higher confidence
RECURSIVE bestResponse(_)
bestResponse(responses) ==
    IF Len(responses) = 1 THEN responses[1]
    ELSE LET best == bestResponse(SubSeq(responses, 1, Len(responses) - 1))
             current == responses[Len(responses)]
             conf(r) == IF Falsy(r.response.confidence) THEN 0 ELSE r.response.confidence
         IN IF conf(current) > conf(best) THEN current ELSE best

\* citations, without those a citation before them has the URL of
uniqueByUrl(cits) ==
    LET first(i) == \A j \in 1..(i - 1) : cits[j].url # cits[i].url
        idx == SelectSeq([i \in 1..Len(cits) |-> i], first)
    IN [k \in 1..Len(idx) |-> cits[idx[k]]]

\* [...new Set(actions)]: the actions, each at its first place only
uniqueActions(actions) ==
    LET first(i) == \A j \in 1..(i - 1) : actions[j] # actions[i]
        idx == SelectSeq([i \in 1..Len(actions) |-> i], first)
    IN [k \in 1..Len(idx) |-> actions[idx[k]]]

\* a createFinalResponse that, without a consensus, falls back to the default
\* confidence of 0.5
createFinalResponseDefaultConfidence(responses, consensus) ==
    LET base == bestResponse(responses).response
        agreed == IF consensus = <<>> THEN <<>> ELSE consensus[1].agreedContent
        conf == IF consensus = <<>> THEN 500 ELSE consensus[1].confidence
    IN [has |-> {"content", "confidence", "citations", "model", "recommendedActions"},
        content |-> IF agreed # <<>> THEN agreed ELSE base.content,
        confidence |-> IF ~Falsy(conf) THEN conf ELSE base.confidence,
        citations |-> uniqueByUrl(flatten([i \in 1..Len(responses) |->
                                              responses[i].response.citations])),
        recommendedActions |->
            uniqueActions(flatten([i \in 1..Len(responses) |->
                                      responses[i].response.recommendedActions])),
        model |-> base.model,
        providersUsed |-> [i \in 1..Len(responses) |-> responses[i].provider],
        consensus |-> consensus # <<>>]

createFinalResponse(responses, consensus) ==
    LET base == bestResponse(responses).response
        agreed == IF consensus = <<>> THEN <<>> ELSE consensus[1].agreedContent
        conf == IF consensus = <<>> THEN Undef ELSE consensus[1].confidence
    IN [has |-> {"content", "confidence", "citations", "model", "recommendedActions"},
        content |-> IF agreed # <<>> THEN agreed ELSE base.content,
        confidence |-> IF ~Falsy(conf) THEN conf ELSE base.confidence,
        citations |-> uniqueByUrl(flatten([i \in 1..Len(responses) |->
                                              responses[i].response.citations])),
        recommendedActions |->
            uniqueActions(flatten([i \in 1..Len(responses) |->
                                      responses[i].response.recommendedActions])),
        model |-> base.model,
        providersUsed |-> [i \in 1..Len(responses) |-> responses[i].provider],
        consensus |-> consensus # <<>>]

\* ------------------------------------------------------------ cost tracker
isCriticalOperation(operation) ==
    operation \in {"MODEL_INFERENCE", "MULTI_MODEL_REASONING", "MEDICAL_ANALYSIS"}

\* getUserBudgets: the placeholder returns no budget
getUserBudgets(userId) == <<>>

\* getCurrentSpend: the sum of the user's rows of the cost log
RECURSIVE getCurrentSpend(_, _)
getCurrentSpend(log, userId) ==
    IF log = <<>> THEN 0
    ELSE (IF Head(log).userId = userId THEN Head(log).costUsd ELSE 0)
         + getCurrentSpend(Tail(log), userId)

\* checkBudgetLimits raises budget-exceeded for the first active budget the
\* projected spend is over
budgetExceeded(log, userId, newCost) ==
    LET budgets == getUserBudgets(userId) IN
    \E k \in 1..Len(budgets) :
        /\ budgets[k].isActive
        /\ getCurrentSpend(log, userId) + newCost > budgets[k].amount

\* checkBudgetLimits: the budgets looked at before the loop throws or ends
budgetsChecked(log, userId, newCost) ==
    LET budgets == getUserBudgets(userId)
        over(k) == budgets[k].isActive
                   /\ getCurrentSpend(log, userId) + newCost > budgets[k].amount
        stops == {k \in 1..Len(budgets) : over(k)}
        last == IF stops = {} THEN Len(budgets)
                ELSE (CHOOSE k \in stops : \A j \in stops : k <= j) - 1
    IN SubSeq(budgets, 1, last)

\* checkBudgetLimits: the createBudgetAlert calls it makes; hasRecentAlert is
\* false, and percentage >= alertThreshold is taken times the amount
budgetAlerts(log, userId, newCost) ==
    LET checked == budgetsChecked(log, userId, newCost) IN
    Cardinality({k \in 1..Len(checked) :
        /\ checked[k].isActive
        /\ (getCurrentSpend(log, userId) + newCost) * 100
              >= checked[k].alertThreshold * checked[k].amount})

\* a user id that is no string: `cost.userId.trim` is not a function
NonStringUser == "#number"

\* flushCosts' conversion throws on an entry whose userId is truthy and no string
conversionThrows(costs) == \E i \in 1..Len(costs) : costs[i].userId = NonStringUser

\* safeData: the rows with a non-blank userId and no chatId
safeData(costs) ==
    LET valid(c) == c.userId # ""
        safe(c) == c.chatId = ""
        kept == SelectSeq(SelectSeq(costs, valid), safe)
    IN [i \in 1..Len(kept) |->
          [id |-> kept[i].id, userId |-> kept[i].userId, costUsd |-> kept[i].totalCost]]

\* ------------------------------------------------------------------- state
VARIABLES
    state,        \* the DoctorGPTState the graph threads through its nodes
    node,         \* the node the graph runs next; "END" when the run is over
    phase,        \* "run": the node is to start; "await": it awaits a call
    local,        \* what the awaiting node holds (the filtered search results and how
                  \* the search tool's call ended; the cost)
    visited,      \* the nodes run so far, in order
    registered,   \* ModelRepository.providers: the enabled providers' names
    invocations,  \* the provider calls of multiModelReasoning, in order
    enabled,      \* CostTracker.config.enabled
    costQueue,    \* CostTracker.costQueue
    costLog,      \* the rows of the cost_logs table
    track,        \* the trackCost call in progress
    flushes,      \* the flushCosts calls in progress
    nextId,       \* the ids given to cost entries so far
    budgetsSet,   \* the budgets setBudget has returned to its callers
    alerts,       \* the createBudgetAlert calls made so far
    taken,        \* the ids of the entries flushCosts has taken off the queue
    rag,          \* the queryMedicalKnowledge call of the chat route
    connections,  \* activeConnections: the stream stored under each session id
    events,       \* the events enqueued on the event streams, in order
    streams,      \* the event streams that are open
    merge,        \* the multiModelReasoning call of a client of the repository
    citing        \* the citations handed to the citation enhancer, and its runs

vars == <<state, node, phase, local, visited, registered, invocations,
          enabled, costQueue, costLog, track, flushes, nextId,
          budgetsSet, alerts, taken, rag, connections, events, streams, merge, citing>>

serviceVars == <<rag, connections, events, streams, merge, citing>>

\* an empty activeConnections
NoConnections == [s \in {} |-> 0]

\* no multiModelReasoning call of a client has been made
IdleMerge == [responses |-> <<>>, result |-> <<>>]

workflowVars == <<state, node, phase, local, visited, registered, invocations>>

Nodes == {"query_analysis", "document_retrieval", "web_search",
          "multi_model_reasoning", "response_validation", "citation_enhancement",
          "quality_check", "cost_tracking", "error_handler"}

\* an uploaded document; a malformed one is an entry that is no object
GoodDoc == [ok |-> TRUE]

BadDoc == [ok |-> FALSE]

RECURSIVE SeqsUpTo(_, _)
SeqsUpTo(S, n) ==
    IF n = 0 THEN {<<>>}
    ELSE LET shorter == SeqsUpTo(S, n - 1)
         IN shorter \cup {Append(s, x) : s \in shorter, x \in S}

\* the uploadedDocuments of a request: none, well-formed ones, or a malformed one
DocLists == SeqsUpTo({GoodDoc}, MaxDocs) \cup {<<BadDoc>>}

\* the citations a caller passes in the initial state: none, one without a
\* score whose url is no URL, or one without a score of a first-tier source
InitialCitations == {<<>>, <<[url |-> BadUrl, relevanceScore |-> Undef]>>,
                     <<[url |-> Url(HostPubmed), relevanceScore |-> Undef]>>}

\* a cost entry an earlier request left in the queue: a well-formed one, or
\* one whose userId is no string
queuedEntry(i, userId) ==
    [id |-> 0 - i, userId |-> userId, chatId |-> "", operation |-> "VECTOR_SEARCH",
     totalCost |-> 100]

\* the queues a run can find: shorter than the batch size, as a queue of batch
\* size is flushed by the trackCost that fills it
QueuedBefore ==
    {q \in SeqsUpTo({"u0", NonStringUser}, BatchSize - 1) :
        \A i \in 1..Len(q) : q[i] = NonStringUser => i = 1}

NoMetadata == [fallbackUsed |-> FALSE, validationMetrics |-> <<>>, consensus |-> <<>>,
               totalCost |-> Undef, qualityScore |-> Undef, totalWorkflowCost |-> Undef]

\* no citation list was handed to the enhancer
IdleCiting == [given |-> FALSE, citations |-> <<>>, once |-> <<>>, runs |-> 0,
               threw |-> FALSE]

\* no queryMedicalKnowledge call is in progress
IdleRag == [pc |-> "idle", useSessionDocuments |-> "undefined",
            globalMatches |-> <<>>, sessionMatches |-> <<>>,
            failed |-> {}, error |-> ""]

IdleTrack == [pc |-> "idle", entry |-> <<>>, error |-> ""]

\* execute(): the defaults, overridden by the caller's partial state
fullState(q, docs, cits, chat) ==
    [userQuery |-> q, userId |-> "u1", chatId |-> chat,
     uploadedDocuments |-> docs,
     processedQuery |-> <<>>, retrievedDocuments |-> <<>>,
     searchResults |-> <<>>, modelResponses |-> <<>>,
     finalResponse |-> <<>>, citations |-> cits, confidence |-> Undef,
     currentNode |-> "start", nextNode |-> "", errors |-> <<>>,
     metadata |-> NoMetadata]

Init ==
    /\ \E q \in Queries, docs \in DocLists, cits \in InitialCitations, chat \in {"", "c1"} :
         state = fullState(q, docs, cits, chat)
    /\ node = "query_analysis"
    /\ phase = "run"
    /\ local = <<>>
    /\ visited = <<>>
    /\ \E hasOpenAI \in BOOLEAN, hasAnthropic \in BOOLEAN :
         registered = initializeProviders(hasOpenAI, hasAnthropic)
    /\ invocations = <<>>
    /\ enabled \in BOOLEAN
    /\ \E q \in QueuedBefore :
         costQueue = [i \in 1..Len(q) |-> queuedEntry(i, q[i])]
    /\ costLog = <<>>
    /\ track = IdleTrack
    /\ flushes = <<>>
    /\ nextId = 1
    /\ budgetsSet = <<>>
    /\ alerts = 0
    /\ taken = <<>>
    /\ rag = IdleRag
    /\ connections = NoConnections
    /\ events = <<>>
    /\ streams = {}
    /\ merge = IdleMerge
    /\ citing = IdleCiting

\* ------------------------------------------------------------ the graph
\* a node's catch block: the error is appended with the node's name and its
\* retryable flag, and nextNode is set
caught(st, name, retryable, next) ==
    [st EXCEPT !.currentNode = name,
               !.nextNode = next,
               !.errors = Append(@, [node |-> name, retryable |-> retryable])]

\* a router that sends a query needing citations to document_retrieval
routeAfterQueryAnalysisViaRetrieval(st) ==
    IF Len(st.errors) > 0 THEN "error"
    ELSE IF Len(st.uploadedDocuments) > 0 THEN "document_retrieval"
    ELSE IF st.processedQuery # <<>> /\ st.processedQuery[1].requiresCitation
    THEN "document_retrieval"
    ELSE "multi_model_reasoning"

\* a router that goes where the stage's nextNode says
routeAfterQueryAnalysisByNextNode(st) ==
    IF Len(st.errors) > 0 THEN "error" ELSE st.nextNode

routeAfterQueryAnalysis(st) ==
    IF Len(st.errors) > 0 THEN "error"
    ELSE IF Len(st.uploadedDocuments) > 0 THEN "document_retrieval"
    ELSE IF st.processedQuery # <<>> /\ st.processedQuery[1].requiresCitation THEN "web_search"
    ELSE "multi_model_reasoning"

\* a router that forgets the citations
routeAfterDocumentRetrievalNoCitation(st) ==
    IF Len(st.errors) > 0 THEN "error" ELSE "multi_model_reasoning"

routeAfterDocumentRetrieval(st) ==
    IF Len(st.errors) > 0 THEN "error"
    ELSE IF st.processedQuery # <<>> /\ st.processedQuery[1].requiresCitation THEN "web_search"
    ELSE "multi_model_reasoning"

\* buildGraph: the node a conditional edge's answer is mapped to
conditionalTarget(answer) == IF answer = "error" THEN "error_handler" ELSE answer

\* buildGraph: the addEdge edges
staticEdge(from) ==
    CASE from = "web_search" -> "multi_model_reasoning"
      [] from = "multi_model_reasoning" -> "response_validation"
      [] from = "response_validation" -> "citation_enhancement"
      [] from = "citation_enhancement" -> "quality_check"
      [] from = "quality_check" -> "cost_tracking"
      [] from = "cost_tracking" -> "END"
      [] from = "error_handler" -> "END"

\* a graph that runs a stage once more when it recorded a retryable error
nextAfterRetryingOnce(from, st) ==
    IF /\ st.errors # <<>>
       /\ st.errors[Len(st.errors)].node = from
       /\ st.errors[Len(st.errors)].retryable
       /\ \A k \in 1..Len(visited) : visited[k] # from
    THEN from
    ELSE CASE from = "query_analysis" -> conditionalTarget(routeAfterQueryAnalysis(st))
           [] from = "document_retrieval" -> conditionalTarget(routeAfterDocumentRetrieval(st))
           [] OTHER -> staticEdge(from)

\* the node that runs after `from` has left the state st
nextAfter(from, st) ==
    CASE from = "query_analysis" -> conditionalTarget(routeAfterQueryAnalysis(st))
      [] from = "document_retrieval" -> conditionalTarget(routeAfterDocumentRetrieval(st))
      [] OTHER -> staticEdge(from)

\* the graph applies a node's update and moves on
Leave(from, st) ==
    \E update \in {st} :
        /\ state' = update
        /\ node' = nextAfter(from, update)
        /\ phase' = "run"
        /\ local' = <<>>
        /\ visited' = Append(visited, from)

trackerVars == <<enabled, costQueue, costLog, track, flushes, nextId,
                 budgetsSet, alerts, taken>>

QueryAnalysis ==
    /\ node = "query_analysis" /\ phase = "run"
    /\ IF state.userQuery = NotAString
       THEN Leave("query_analysis", caught(state, "query_analysis", TRUE, "error_handler"))
       ELSE \E pq \in {analyse(state.userQuery)} :
            Leave("query_analysis",
                  [state EXCEPT !.processedQuery = <<pq>>,
                                !.currentNode = "query_analysis",
                                !.nextNode = determineNextNodeAfterAnalysis(pq)])
    /\ UNCHANGED <<registered, invocations>>
    /\ UNCHANGED trackerVars
    /\ UNCHANGED serviceVars

\* performVectorSearch: the placeholder finds nothing
performVectorSearch == <<>>

DocumentRetrieval ==
    /\ node = "document_retrieval" /\ phase = "run"
    /\ IF \/ state.processedQuery = <<>>
          \/ \E i \in 1..Len(state.uploadedDocuments) : ~state.uploadedDocuments[i].ok
       THEN Leave("document_retrieval", caught(state, "document_retrieval", TRUE, "error_handler"))
       ELSE LET docs == IF Len(state.uploadedDocuments) > 0
                        THEN [i \in 1..Len(state.uploadedDocuments) |->
                                 [source |-> "uploaded", relevanceScore |-> 1000]]
                        ELSE performVectorSearch
            IN Leave("document_retrieval",
                     [state EXCEPT !.retrievedDocuments = docs,
                                   !.currentNode = "document_retrieval",
                                   !.nextNode = determineNextNodeAfterRetrieval(
                                                    state.processedQuery[1], docs)])
    /\ UNCHANGED <<registered, invocations>>
    /\ UNCHANGED trackerVars
    /\ UNCHANGED serviceVars

\* ------------------------------------------------------- cost tracker steps
\* trackCost, after its flush (if any): the budget check for a critical operation
afterFlush(e) ==
    [pc |-> IF isCriticalOperation(e.operation) THEN "check" ELSE "returned",
     entry |-> <<e>>, error |-> ""]

\* trackCost: the queue has reached the batch size
batchReachedLate(q) == Len(q) > BatchSize

batchReached(q) == Len(q) >= BatchSize

\* a flushCosts that leaves its snapshot on the queue
queueAfterTakeKept(costs) == costs

\* flushCosts: `const costs = [...this.costQueue]; this.costQueue = []`, the
\* queue once the snapshot costs is taken
queueAfterTake(costs) == <<>>

idsOf(costs) == [i \in 1..Len(costs) |-> costs[i].id]

\* what the flushCosts call of a trackCost that has made the queue q does
\* before its first await: nothing (no call), a throw, a flush of no row, or
\* the start of the inserts
flushOutcome(q) ==
    IF ~batchReached(q) THEN "none"
    ELSE IF conversionThrows(q) THEN "threw"
    ELSE IF safeData(q) = <<>> THEN "empty"
    ELSE "started"

\* trackCost, from the push to the first await, for the stamped entry e
pushAndFlush(e, owner) ==
    LET q == Append(costQueue, e)
        out == flushOutcome(q)
    IN /\ nextId' = nextId + 1
       /\ costQueue' = IF out \in {"none", "threw"} THEN q ELSE queueAfterTake(q)
       /\ taken' = IF out \in {"none", "threw"} THEN taken ELSE taken \o idsOf(q)
       /\ flushes' = IF out = "started"
                     THEN Append(flushes, [owner |-> owner, rows |-> safeData(q)])
                     ELSE flushes

\* trackCost up to its first await: the entry is stamped and pushed, and a queue
\* of batch size is flushed; flushCosts takes the whole queue, and puts it back
\* and throws when the conversion of an entry throws
trackCostCall(entry) ==
    IF ~enabled
    THEN /\ track' = [pc |-> "returned", entry |-> <<>>, error |-> ""]
         /\ UNCHANGED <<costQueue, flushes, nextId, taken>>
    ELSE LET e == [entry EXCEPT !.id = nextId]
             out == flushOutcome(Append(costQueue, e))
         IN /\ pushAndFlush(e, "track")
            /\ track' = CASE out \in {"none", "empty"} -> afterFlush(e)
                          [] out = "threw" -> [pc |-> "threw", entry |-> <<e>>,
                                               error |-> "CostTrackingError"]
                          [] out = "started" -> [pc |-> "flushing", entry |-> <<e>>,
                                                 error |-> ""]

RemoveAt(s, i) == SubSeq(s, 1, i - 1) \o SubSeq(s, i + 1, Len(s))

\* flushCosts, one prisma.costLog.create: a failed insert is logged and skipped
FlushInsert ==
    /\ \E i \in 1..Len(flushes), ok \in BOOLEAN :
         LET f == flushes[i]
             rest == Tail(f.rows)
         IN /\ costLog' = IF ok THEN Append(costLog, Head(f.rows)) ELSE costLog
            /\ IF rest # <<>>
               THEN /\ flushes' = [flushes EXCEPT ![i].rows = rest]
                    /\ track' = track
               ELSE /\ flushes' = RemoveAt(flushes, i)
                    /\ track' = IF f.owner = "track" THEN afterFlush(track.entry[1])
                                ELSE track
    /\ UNCHANGED <<enabled, costQueue, nextId, budgetsSet, alerts, taken>>
    /\ UNCHANGED workflowVars
    /\ UNCHANGED serviceVars

\* the setInterval callback: flushCosts().catch(console.error)
TimerFlush ==
    /\ enabled
    /\ costQueue # <<>>
    /\ Cardinality({i \in 1..Len(flushes) : flushes[i].owner = "timer"}) < MaxTimerFlushes
    /\ IF conversionThrows(costQueue)
       THEN UNCHANGED <<costQueue, flushes, taken>>
       ELSE /\ costQueue' = queueAfterTake(costQueue)
            /\ taken' = taken \o idsOf(costQueue)
            /\ flushes' = IF safeData(costQueue) = <<>> THEN flushes
                          ELSE Append(flushes, [owner |-> "timer",
                                                rows |-> safeData(costQueue)])
    /\ UNCHANGED <<enabled, costLog, track, nextId, budgetsSet, alerts>>
    /\ UNCHANGED workflowVars
    /\ UNCHANGED serviceVars

\* checkBudgetLimits: the spend is read from the cost log (a read that can fail),
\* then each active budget is compared
CheckBudgetLimits ==
    /\ track.pc = "check"
    /\ \E dbOk \in BOOLEAN :
         LET e == track.entry[1] IN
         /\ track' = IF ~dbOk
                     THEN [track EXCEPT !.pc = "threw", !.error = "DatabaseError"]
                     ELSE IF budgetExceeded(costLog, e.userId, e.totalCost)
                     THEN [track EXCEPT !.pc = "threw", !.error = "BudgetExceededError"]
                     ELSE [track EXCEPT !.pc = "returned"]
         /\ alerts' = IF dbOk THEN alerts + budgetAlerts(costLog, e.userId, e.totalCost)
                      ELSE alerts
    /\ UNCHANGED <<enabled, costQueue, costLog, flushes, nextId, budgetsSet, taken>>
    /\ UNCHANGED workflowVars
    /\ UNCHANGED serviceVars

\* ------------------------------------------------------------- web search
WebSearchStart ==
    /\ node = "web_search" /\ phase = "run"
    /\ IF state.processedQuery = <<>>
       THEN /\ Leave("web_search", caught(state, "web_search", TRUE, "error_handler"))
            /\ UNCHANGED trackerVars
       ELSE /\ \E o \in ProviderOutcomes :
                 local' = <<filterMedicalResults(performSearch(o)), o>>
            /\ phase' = "await"
            /\ trackCostCall([id |-> 0, userId |-> state.userId, chatId |-> state.chatId,
                              operation |-> "WEB_SEARCH", totalCost |-> 1000])
            /\ UNCHANGED <<state, node, visited, enabled, costLog, budgetsSet, alerts>>
    /\ UNCHANGED <<registered, invocations>>
    /\ UNCHANGED serviceVars

\* searchMedical returns the results, or rethrows what trackWebSearch threw
WebSearchFinish ==
    /\ node = "web_search" /\ phase = "await"
    /\ track.pc \in {"returned", "threw"}
    /\ IF track.pc = "returned"
       THEN Leave("web_search",
                  [state EXCEPT !.searchResults = <<local[1]>>,
                                !.citations = convertToCitations(local[1]),
                                !.currentNode = "web_search",
                                !.nextNode = "multi_model_reasoning"])
       ELSE Leave("web_search", caught(state, "web_search", TRUE, "error_handler"))
    /\ track' = IdleTrack
    /\ UNCHANGED <<registered, invocations, enabled, costQueue, costLog, flushes, nextId,
                   budgetsSet, alerts, taken>>
    /\ UNCHANGED serviceVars

\* --------------------------------------------------- multi-model reasoning
\* the providers the workflow names
providersToUse == <<"openai", "anthropic">>

\* multiModelReasoning up to Promise.all: it throws when no named provider is
\* enabled, and else calls every one of them
ReasoningStart ==
    /\ node = "multi_model_reasoning" /\ phase = "run"
    /\ LET providers == providersFor(registered, providersToUse) IN
       IF state.processedQuery = <<>> \/ providers = <<>>
       THEN /\ Leave("multi_model_reasoning",
                     caught(state, "multi_model_reasoning", TRUE, "error_handler"))
            /\ UNCHANGED invocations
       ELSE /\ invocations' = [i \in 1..Len(providers) |->
                                 [provider |-> providers[i], status |-> "pending",
                                  content |-> <<>>]]
            /\ phase' = "await"
            /\ UNCHANGED <<state, node, local, visited>>
    /\ UNCHANGED registered
    /\ UNCHANGED trackerVars
    /\ UNCHANGED serviceVars

\* provider.medicalComplete resolves
ProviderReturns ==
    /\ \E i \in 1..Len(invocations), c \in Contents :
         /\ invocations[i].status = "pending"
         /\ invocations' = [invocations EXCEPT ![i].status = "ok", ![i].content = c]
    /\ UNCHANGED <<state, node, phase, local, visited, registered>>
    /\ UNCHANGED trackerVars
    /\ UNCHANGED serviceVars

\* provider.medicalComplete rejects: the call's catch logs it and yields null
ProviderFails ==
    /\ \E i \in 1..Len(invocations) :
         /\ invocations[i].status = "pending"
         /\ invocations' = [invocations EXCEPT ![i].status = "failed"]
    /\ UNCHANGED <<state, node, phase, local, visited, registered>>
    /\ UNCHANGED trackerVars
    /\ UNCHANGED serviceVars

\* the provider's backend never answers: the promise stays pending for good
ProviderHangs ==
    /\ \E i \in 1..Len(invocations) :
         /\ invocations[i].status = "pending"
         /\ invocations' = [invocations EXCEPT ![i].status = "hung"]
    /\ UNCHANGED <<state, node, phase, local, visited, registered>>
    /\ UNCHANGED trackerVars
    /\ UNCHANGED serviceVars

\* the responses of the calls that resolved, in the order of the providers
responsesOf(invs) ==
    LET ok(v) == v.status = "ok"
        done == SelectSeq(invs, ok)
    IN [i \in 1..Len(done) |->
          [provider |-> done[i].provider,
           response |-> [content |-> done[i].content,
                         confidence |-> providerConfidence(done[i].provider),
                         citations |-> providerCitations(done[i].provider),
                         recommendedActions |-> providerActions(done[i].provider),
                         model |-> providerModel(done[i].provider)],
           cost |-> calculateCost(done[i].provider)]]

\* a multiModelReasoning whose calls rethrow: one rejection rejects Promise.all
multiModelResultAllOrNothing(invs) ==
    LET responses == responsesOf(invs) IN
    IF Len(responses) < Len(invs) THEN <<>>
    ELSE LET consensus == analyzeConsensus(responses) IN
         << [responses |-> responses,
             consensus |-> consensus,
             finalResponse |-> createFinalResponse(responses, consensus),
             totalCost |-> SumSeq([i \in 1..Len(responses) |-> responses[i].cost])] >>

\* what multiModelReasoning returns; <<>> when it throws (nothing resolved)
multiModelResult(invs) ==
    LET responses == responsesOf(invs) IN
    IF responses = <<>> THEN <<>>
    ELSE LET consensus == analyzeConsensus(responses) IN
         << [responses |-> responses,
             consensus |-> consensus,
             finalResponse |-> createFinalResponse(responses, consensus),
             totalCost |-> SumSeq([i \in 1..Len(responses) |-> responses[i].cost])] >>

\* Promise.all has resolved: every call has resolved or rejected
ReasoningComplete ==
    /\ node = "multi_model_reasoning" /\ phase = "await"
    /\ \A i \in 1..Len(invocations) : invocations[i].status \in {"ok", "failed"}
    /\ \E result \in {multiModelResult(invocations)} :
       IF result = <<>>
       THEN Leave("multi_model_reasoning",
                  caught(state, "multi_model_reasoning", TRUE, "error_handler"))
       ELSE Leave("multi_model_reasoning",
                  [state EXCEPT
                     !.modelResponses =
                        [i \in 1..Len(result[1].responses) |->
                           [provider |-> result[1].responses[i].provider,
                            cost |-> result[1].responses[i].cost,
                            confidence |->
                               IF Falsy(result[1].responses[i].response.confidence)
                               THEN 800
                               ELSE result[1].responses[i].response.confidence]],
                     !.finalResponse = <<result[1].finalResponse>>,
                     !.currentNode = "multi_model_reasoning",
                     !.nextNode = "response_validation",
                     !.metadata.totalCost = result[1].totalCost,
                     !.metadata.consensus = result[1].consensus])
    /\ UNCHANGED <<registered, invocations>>
    /\ UNCHANGED trackerVars
    /\ UNCHANGED serviceVars

\* ------------------------------------------------- validation and quality
diagnoseWords == << <<"d","i","a","g","n","o","s","e">>,
                   <<"d","i","a","g","n","o","s","i","s">> >>

\* validateMedicalResponse: one high-severity issue when the text speaks of
\* a diagnosis
validateMedicalResponse(response) ==
    IF someIncluded(diagnoseWords, toLowerCase(response.content))
    THEN <<[type |-> "safety", severity |-> "high"]>>
    ELSE <<>>

calculateFactualAccuracy(cits) == IF Len(cits) > 0 THEN 900 ELSE 600

calculateCitationQuality(cits) ==
    IF Len(cits) = 0 THEN 0
    ELSE SumSeq([i \in 1..Len(cits) |-> getSourceReliabilityScore(cits[i].url)])
         \div Len(cits)

calculateMedicalSafety(issues) ==
    IF \E i \in 1..Len(issues) : issues[i].severity = "critical" THEN 200
    ELSE IF \E i \in 1..Len(issues) : issues[i].severity = "high" THEN 600
    ELSE 900

calculateCompleteness(response, originalQuery) ==
    IF Len(response.content) < Len(originalQuery) * 2 THEN 500
    ELSE IF Len(response.content) < Len(originalQuery) * 5 THEN 700
    ELSE 900

\* responseValidationNode throws without a final response or model responses,
\* and when calculateCitationQuality meets a url that is no URL
validationThrows(st) ==
    \/ st.finalResponse = <<>>
    \/ st.modelResponses = <<>>
    \/ \E i \in 1..Len(st.citations) : ~st.citations[i].url.valid

ResponseValidation ==
    /\ node = "response_validation" /\ phase = "run"
    /\ IF validationThrows(state)
       THEN Leave("response_validation",
                  caught(state, "response_validation", FALSE, "error_handler"))
       ELSE LET fr == state.finalResponse[1]
                issues == validateMedicalResponse(fr)
            IN Leave("response_validation",
                     [state EXCEPT
                        !.currentNode = "response_validation",
                        !.nextNode = "citation_enhancement",
                        !.metadata.validationMetrics =
                           << [factualAccuracy |-> calculateFactualAccuracy(state.citations),
                               citationQuality |-> calculateCitationQuality(state.citations),
                               medicalSafety |-> calculateMedicalSafety(issues),
                               completeness |->
                                  calculateCompleteness(fr, state.userQuery)] >>])
    /\ UNCHANGED <<registered, invocations>>
    /\ UNCHANGED trackerVars
    /\ UNCHANGED serviceVars

\* an object with no field: what spreading an undefined final response gives
EmptyResponse ==
    [has |-> {}, content |-> <<>>, confidence |-> Undef, citations |-> <<>>,
     recommendedActions |-> <<>>,
     model |-> "", providersUsed |-> <<>>, consensus |-> FALSE]

\* a spread that keeps the citations the final response has
withCitationsKept(finalResponse, cits) ==
    LET fr == IF finalResponse = <<>> THEN EmptyResponse ELSE finalResponse[1]
    IN [fr EXCEPT !.citations = IF "citations" \in fr.has THEN @ ELSE cits,
                  !.has = @ \cup {"citations"}]

\* { ...state.finalResponse, citations: enhancedCitations }
withCitations(finalResponse, cits) ==
    LET fr == IF finalResponse = <<>> THEN EmptyResponse ELSE finalResponse[1]
    IN [fr EXCEPT !.citations = cits, !.has = @ \cup {"citations"}]

CitationEnhancement ==
    /\ node = "citation_enhancement" /\ phase = "run"
    /\ IF enhanceCitationsThrows(state.citations)
       THEN Leave("citation_enhancement",
                  caught(state, "citation_enhancement", FALSE, "quality_check"))
       ELSE \E enhanced \in {enhanceCitations(state.citations)} :
            Leave("citation_enhancement",
                  [state EXCEPT !.citations = enhanced,
                                !.finalResponse = <<withCitations(@, enhanced)>>,
                                !.currentNode = "citation_enhancement",
                                !.nextNode = "quality_check"])
    /\ UNCHANGED <<registered, invocations>>
    /\ UNCHANGED trackerVars
    /\ UNCHANGED serviceVars

\* calculateQualityScore: the mean of the four metrics, 0.5 without them
calculateQualityScore(st) ==
    IF st.metadata.validationMetrics = <<>> THEN 500
    ELSE LET m == st.metadata.validationMetrics[1]
         IN (m.factualAccuracy + m.citationQuality + m.medicalSafety + m.completeness)
            \div 4

QualityCheck ==
    /\ node = "quality_check" /\ phase = "run"
    /\ LET qualityScore == calculateQualityScore(state) IN
       Leave("quality_check",
             [state EXCEPT !.currentNode = "quality_check",
                           !.nextNode = "cost_tracking",
                           !.confidence = qualityScore,
                           !.metadata.qualityScore = qualityScore])
    /\ UNCHANGED <<registered, invocations>>
    /\ UNCHANGED trackerVars
    /\ UNCHANGED serviceVars

\* ----------------------------------------------------------- cost tracking
\* calculateTotalWorkflowCost: the model costs and the base cost of 0.001
calculateTotalWorkflowCost(st) ==
    SumSeq([i \in 1..Len(st.modelResponses) |-> st.modelResponses[i].cost]) + 1000

CostTrackingStart ==
    /\ node = "cost_tracking" /\ phase = "run"
    /\ LET totalCost == calculateTotalWorkflowCost(state) IN
       /\ local' = <<totalCost>>
       /\ trackCostCall([id |-> 0, userId |-> state.userId, chatId |-> state.chatId,
                         operation |-> "MEDICAL_ANALYSIS", totalCost |-> totalCost])
    /\ phase' = "await"
    /\ UNCHANGED <<state, node, visited, registered, invocations, enabled, costLog,
                   budgetsSet, alerts>>
    /\ UNCHANGED serviceVars

\* the node's catch block ends the workflow also when trackCost threw
CostTrackingFinish ==
    /\ node = "cost_tracking" /\ phase = "await"
    /\ track.pc \in {"returned", "threw"}
    /\ IF track.pc = "returned"
       THEN Leave("cost_tracking",
                  [state EXCEPT !.currentNode = "cost_tracking",
                                !.nextNode = "end",
                                !.metadata.totalWorkflowCost = local[1]])
       ELSE Leave("cost_tracking", caught(state, "cost_tracking", FALSE, "end"))
    /\ track' = IdleTrack
    /\ UNCHANGED <<registered, invocations, enabled, costQueue, costLog, flushes, nextId,
                   budgetsSet, alerts, taken>>
    /\ UNCHANGED serviceVars

\* ----------------------------------------------------------- error handler
fallbackResponse ==
    [has |-> {"content", "confidence", "citations", "model"},
     content |-> <<"#fallback">>, confidence |-> 100, citations |-> <<>>,
     recommendedActions |-> <<>>,
     model |-> "error-fallback", providersUsed |-> <<>>, consensus |-> FALSE]

ErrorHandler ==
    /\ node = "error_handler" /\ phase = "run"
    /\ Leave("error_handler",
             [state EXCEPT !.finalResponse = <<fallbackResponse>>,
                           !.currentNode = "error_handler",
                           !.nextNode = "end",
                           !.metadata.fallbackUsed = TRUE])
    /\ UNCHANGED <<registered, invocations>>
    /\ UNCHANGED trackerVars
    /\ UNCHANGED serviceVars

\* ------------------------------------------------------------ specification
Next ==
    \/ QueryAnalysis
    \/ DocumentRetrieval
    \/ WebSearchStart
    \/ WebSearchFinish
    \/ ReasoningStart
    \/ ProviderReturns
    \/ ProviderFails
    \/ ProviderHangs
    \/ ReasoningComplete
    \/ ResponseValidation
    \/ CitationEnhancement
    \/ QualityCheck
    \/ CostTrackingStart
    \/ CostTrackingFinish
    \/ ErrorHandler
    \/ FlushInsert
    \/ TimerFlush
    \/ CheckBudgetLimits

Spec == Init /\ [][Next]_vars

\* the reasoning stage on its own: the runs that go from query_analysis straight
\* to reasoning, with an idle cost tracker. The event loop runs a continuation
\* that is ready, so no enabled step waits for ever; a provider that hangs has
\* no step left to take
ReasoningInit ==
    /\ Init
    /\ state.userQuery \in {QChestPain, QMetformin, QSymptoms}
    /\ state.uploadedDocuments = <<>>
    /\ state.citations = <<>>
    /\ state.chatId = "c1"
    /\ enabled
    /\ costQueue = <<>>

ReasoningNext ==
    \/ QueryAnalysis
    \/ ReasoningStart
    \/ ProviderReturns
    \/ ProviderFails
    \/ ProviderHangs
    \/ ReasoningComplete

ReasoningSpec == ReasoningInit /\ [][ReasoningNext]_vars /\ WF_vars(ReasoningNext)

\* ------------------------------------------------------------- the ledger
\* the cost tracker on its own, called by clients while no run is in progress
Dollars(n) == n * 1000000

Cents(n) == n * 10000

\* setBudget: the budget it builds and returns; nothing keeps it
SetBudget ==
    /\ Len(budgetsSet) < MaxSetBudgetCalls
    /\ budgetsSet' = Append(budgetsSet,
                            [userId |-> "u0", budgetType |-> "daily",
                             amount |-> Dollars(10), alertThreshold |-> 80,
                             isActive |-> TRUE])
    /\ UNCHANGED <<enabled, costQueue, costLog, track, flushes, nextId, alerts, taken>>
    /\ UNCHANGED workflowVars
    /\ UNCHANGED serviceVars

\* a client calls trackCost and awaits it
ClientTrackCost ==
    /\ track = IdleTrack
    /\ nextId <= MaxTrackCalls
    /\ \E chat \in {"", "c1"}, op \in {"MEDICAL_ANALYSIS", "WEB_SEARCH"},
          cost \in {Cents(40), Dollars(1)} :
         trackCostCall([id |-> 0, userId |-> "u0", chatId |-> chat,
                        operation |-> op, totalCost |-> cost])
    /\ UNCHANGED <<enabled, costLog, budgetsSet, alerts>>
    /\ UNCHANGED workflowVars
    /\ UNCHANGED serviceVars

\* the client's await is over: trackCost has returned or thrown
ClientReturns ==
    /\ node = "END"
    /\ track.pc \in {"returned", "threw"}
    /\ track' = IdleTrack
    /\ UNCHANGED <<enabled, costQueue, costLog, flushes, nextId, budgetsSet, alerts, taken>>
    /\ UNCHANGED workflowVars
    /\ UNCHANGED serviceVars

\* another request calls trackCost, whatever the awaited call is at; what that
\* call does after its first await changes nothing in the tracker
ConcurrentTrackCost ==
    /\ enabled
    /\ nextId <= MaxTrackCalls
    /\ \E chat \in {"", "c1"} :
         pushAndFlush([id |-> nextId, userId |-> "u0", chatId |-> chat,
                       operation |-> "WEB_SEARCH", totalCost |-> 1000], "other")
    /\ UNCHANGED <<enabled, costLog, track, budgetsSet, alerts>>
    /\ UNCHANGED workflowVars
    /\ UNCHANGED serviceVars

\* the rows of cost_logs the user u0 has today: none, or $9.50
SpentBefore == {<<>>, <<[id |-> 0, userId |-> "u0", costUsd |-> Cents(950)]>>}

LedgerInit ==
    /\ state = fullState(QChestPain, <<>>, <<>>, "")
    /\ node = "END"
    /\ phase = "run"
    /\ local = <<>>
    /\ visited = <<>>
    /\ registered = initializeProviders(FALSE, FALSE)
    /\ invocations = <<>>
    /\ enabled = TRUE
    /\ \E q \in QueuedBefore :
         costQueue = [i \in 1..Len(q) |-> queuedEntry(i, q[i])]
    /\ costLog \in SpentBefore
    /\ track = IdleTrack
    /\ flushes = <<>>
    /\ nextId = 1
    /\ budgetsSet = <<>>
    /\ alerts = 0
    /\ taken = <<>>
    /\ rag = IdleRag
    /\ connections = NoConnections
    /\ events = <<>>
    /\ streams = {}
    /\ merge = IdleMerge
    /\ citing = IdleCiting

LedgerNext ==
    \/ SetBudget
    \/ ClientTrackCost
    \/ ClientReturns
    \/ ConcurrentTrackCost
    \/ FlushInsert
    \/ TimerFlush
    \/ CheckBudgetLimits

LedgerSpec == LedgerInit /\ [][LedgerNext]_vars

\* the runs in which every external call returns: no provider hangs, and the
\* event loop runs every continuation that is ready
TerminationInit ==
    /\ Init
    /\ state.userQuery \in {NotAString, QChestPain, QTreatment}
    /\ state.chatId = ""
    /\ state.citations = <<>>
    /\ registered = initializeProviders(TRUE, FALSE)
    /\ enabled
    /\ costQueue = <<>>

TerminationNext ==
    \/ FlushInsert
    \/ TimerFlush
    \/ CheckBudgetLimits
    \/ QueryAnalysis
    \/ DocumentRetrieval
    \/ WebSearchStart
    \/ WebSearchFinish
    \/ ReasoningStart
    \/ ProviderReturns
    \/ ProviderFails
    \/ ReasoningComplete
    \/ ResponseValidation
    \/ CitationEnhancement
    \/ QualityCheck
    \/ CostTrackingStart
    \/ CostTrackingFinish
    \/ ErrorHandler

TerminationSpec ==
    TerminationInit /\ [][TerminationNext]_vars /\ WF_vars(TerminationNext)

\* ---------------------------------------------------------- dual retrieval
\* the chat route's call of queryMedicalKnowledge, made before the workflow runs
\* the hits a partition's search can return
GlobalHits == {<<>>, <<"g1">>}

SessionHits == {<<>>, <<"s1">>}

\* the useSessionDocuments the route passes: uploadedDocuments && length > 0
useSessionDocumentsOf(uploaded) ==
    IF uploaded = "undefined" THEN "undefined"
    ELSE IF uploaded = <<>> THEN "false" ELSE "true"

\* POST: the awaited call starts; the mock embedding is generated
QueryMedicalKnowledge ==
    /\ rag.pc = "idle"
    /\ nextId <= MaxQueries
    /\ \E uploaded \in {"undefined", <<>>, <<GoodDoc>>} :
         rag' = [IdleRag EXCEPT !.pc = "global",
                                !.useSessionDocuments = useSessionDocumentsOf(uploaded)]
    /\ UNCHANGED <<connections, events, streams, merge, citing>>
    /\ UNCHANGED trackerVars
    /\ UNCHANGED workflowVars

\* what follows the search of the global partition
afterGlobal(r) == IF r.useSessionDocuments # "false" THEN "session" ELSE "generate"

\* qdrant.searchKnowledge returns its hits or throws; a throw is caught by the
\* one try block of queryMedicalKnowledge
SearchKnowledge ==
    /\ rag.pc = "global"
    /\ \/ \E hits \in GlobalHits :
            rag' = [rag EXCEPT !.pc = afterGlobal(rag), !.globalMatches = hits]
       \/ rag' = [rag EXCEPT !.pc = "threw", !.failed = @ \cup {"global"},
                             !.error = "Failed to query medical knowledge"]
    /\ UNCHANGED <<connections, events, streams, merge, citing>>
    /\ UNCHANGED trackerVars
    /\ UNCHANGED workflowVars

\* qdrant.searchFiles returns its hits or throws
SearchFiles ==
    /\ rag.pc = "session"
    /\ \/ \E hits \in SessionHits :
            rag' = [rag EXCEPT !.pc = "generate", !.sessionMatches = hits]
       \/ rag' = [rag EXCEPT !.pc = "threw", !.failed = @ \cup {"session"},
                             !.error = "Failed to query medical knowledge"]
    /\ UNCHANGED <<connections, events, streams, merge, citing>>
    /\ UNCHANGED trackerVars
    /\ UNCHANGED workflowVars

\* generateMedicalResponse (it catches its own failures), the citations and the
\* confidence; then the call of trackCost, up to its first await
RagTrackCost ==
    /\ rag.pc = "generate"
    /\ track = IdleTrack
    /\ trackCostCall([id |-> 0, userId |-> "u0", chatId |-> "",
                      operation |-> "VECTOR_SEARCH", totalCost |-> 1000])
    /\ rag' = [rag EXCEPT !.pc = "track"]
    /\ UNCHANGED <<enabled, costLog, budgetsSet, alerts, connections, events, streams,
                   merge, citing>>
    /\ UNCHANGED workflowVars

\* trackCost is over: the result is returned, or the catch block rethrows
RagReturns ==
    /\ rag.pc = "track"
    /\ track.pc \in {"returned", "threw"}
    /\ rag' = IF track.pc = "returned"
              THEN [rag EXCEPT !.pc = "returned"]
              ELSE [rag EXCEPT !.pc = "threw",
                               !.error = "Failed to query medical knowledge"]
    /\ track' = IdleTrack
    /\ UNCHANGED <<enabled, costQueue, costLog, flushes, nextId, budgetsSet, alerts,
                   taken, connections, events, streams, merge, citing>>
    /\ UNCHANGED workflowVars

\* POST is over: it went on with the result, or its catch block answered 500
RouteResponds ==
    /\ rag.pc \in {"returned", "threw"}
    /\ rag' = IdleRag
    /\ UNCHANGED <<connections, events, streams, merge, citing>>
    /\ UNCHANGED trackerVars
    /\ UNCHANGED workflowVars

RetrievalNext ==
    \/ QueryMedicalKnowledge
    \/ SearchKnowledge
    \/ SearchFiles
    \/ RagTrackCost
    \/ RagReturns
    \/ RouteResponds
    \/ FlushInsert
    \/ TimerFlush

RetrievalSpec == LedgerInit /\ [][RetrievalNext]_vars

\* --------------------------------------------------------- progress events
\* the session of the request
SessionId == "s1"

\* Map.prototype.delete
deleteKey(map, key) == [k \in DOMAIN map \ {key} |-> map[k]]

\* Map.prototype.set
setKey(map, key, value) == [k \in DOMAIN map \cup {key} |-> IF k = key THEN value ELSE map[k]]

\* sendWorkflowUpdate: nothing without a connection of the session; the event is
\* enqueued on the stream stored under the session id, and a connection whose
\* enqueue throws is deleted. The result is the pair of the connections and the
\* events. No node of the graph, nor execute, nor the chat route calls it or
\* one of its wrappers
sendWorkflowUpdate(conns, evs, sessionId, event, enqueueOk) ==
    IF sessionId \notin DOMAIN conns THEN <<conns, evs>>
    ELSE IF enqueueOk
    THEN <<conns, Append(evs, [event EXCEPT !.sessionId = sessionId,
                                            !.stream = conns[sessionId]])>>
    ELSE <<deleteKey(conns, sessionId), evs>>

sendWorkflowStepStart(conns, evs, sessionId, step, enqueueOk) ==
    sendWorkflowUpdate(conns, evs, sessionId,
                       [type |-> "step_start", step |-> step, sessionId |-> "",
                        stream |-> 0], enqueueOk)

sendWorkflowStepComplete(conns, evs, sessionId, step, enqueueOk) ==
    sendWorkflowUpdate(conns, evs, sessionId,
                       [type |-> "step_complete", step |-> step, sessionId |-> "",
                        stream |-> 0], enqueueOk)

sendWorkflowError(conns, evs, sessionId, step, enqueueOk) ==
    sendWorkflowUpdate(conns, evs, sessionId,
                       [type |-> "error", step |-> step, sessionId |-> "",
                        stream |-> 0], enqueueOk)

sendWorkflowComplete(conns, evs, sessionId, enqueueOk) ==
    sendWorkflowUpdate(conns, evs, sessionId,
                       [type |-> "complete", step |-> "", sessionId |-> "",
                        stream |-> 0], enqueueOk)

\* the streams opened so far: each got its initial event
streamsOpened == Cardinality({events[k].stream : k \in 1..Len(events)})

\* GET: the stream's controller is stored under the session id, in place of the
\* one stored there before, and the initial event is enqueued on it
Connect ==
    /\ streamsOpened < MaxConnects
    /\ connections' = setKey(connections, SessionId, streamsOpened + 1)
    /\ streams' = streams \cup {streamsOpened + 1}
    /\ events' = Append(events, [type |-> "progress", step |-> "",
                                 sessionId |-> SessionId,
                                 stream |-> streamsOpened + 1])
    /\ UNCHANGED <<rag, merge, citing>>
    /\ UNCHANGED trackerVars
    /\ UNCHANGED workflowVars

\* the request of a stream is aborted, or the stream cancelled: whatever is
\* stored under its session id is deleted, and the stream is closed
Disconnect ==
    /\ \E c \in streams : streams' = streams \ {c}
    /\ connections' = deleteKey(connections, SessionId)
    /\ UNCHANGED <<rag, events, merge, citing>>
    /\ UNCHANGED trackerVars
    /\ UNCHANGED workflowVars

\* a caller sends an update to the session: sendWorkflowUpdate, whose enqueue
\* can throw
SendUpdate ==
    /\ Len(events) - streamsOpened < MaxUpdates
    /\ \E kind \in {"step_start", "step_complete"}, enqueueOk \in BOOLEAN :
         \E sent \in {sendWorkflowUpdate(connections, events, SessionId,
                                         [type |-> kind, step |-> "query_analysis",
                                          sessionId |-> "", stream |-> 0],
                                         enqueueOk)} :
            /\ connections' = sent[1]
            /\ events' = sent[2]
    /\ UNCHANGED <<rag, streams, merge, citing>>
    /\ UNCHANGED trackerVars
    /\ UNCHANGED workflowVars

\* the event streams of a session on their own: clients open and close them
\* while updates are sent
\* no stream is open and the tracker's queue is empty
RegistryInit ==
    /\ LedgerInit
    /\ costQueue = <<>>
    /\ costLog = <<>>

RegistryNext ==
    \/ Connect
    \/ Disconnect
    \/ SendUpdate

RegistrySpec == RegistryInit /\ [][RegistryNext]_vars

\* the runs of a chat with both providers registered and the tracker enabled,
\* while a client opens and closes the event stream of the session
ProgressInit ==
    /\ Init
    /\ state.chatId = "c1"
    /\ state.citations = <<>>
    /\ registered = initializeProviders(TRUE, TRUE)
    /\ enabled

ProgressNext ==
    \/ Next
    \/ Connect
    \/ Disconnect

ProgressSpec == ProgressInit /\ [][ProgressNext]_vars

\* ------------------------------------------------------------ the consensus
\* analyzeConsensus and createFinalResponse, on the answers providers can give
\* a text of n characters without a sentence end
Filler(n) == [i \in 1..n |-> "x"]

\* an answer that says everything twice
AnsTwice == AnsRest \o AnsRest

ConsensusContents == {AnsRest, AnsDoctor, AnsTwice, Filler(200), Filler(900)}

\* the confidences an answer reports, in thousandths
ConsensusConfidences == {0, 600, 900}

\* the providers of the repository, in the order of their priority; more than
\* the two of initializeProviders are registered with addProvider
ConsensusProviders == <<"openai", "anthropic", "local-mock", "custom">>

ConsensusInit ==
    /\ LedgerInit
    /\ costQueue = <<>>
    /\ costLog = <<>>

\* a call of medicalComplete resolves: its answer joins the results
ProviderAnswers ==
    /\ merge.result = <<>>
    /\ Len(merge.responses) < MaxAnswers
    /\ Len(merge.responses) < Len(ConsensusProviders)
    /\ \E content \in ConsensusContents, confidence \in ConsensusConfidences :
         LET name == ConsensusProviders[Len(merge.responses) + 1] IN
         merge' = [merge EXCEPT !.responses =
                      Append(@, [provider |-> name,
                                 response |-> [content |-> content,
                                               confidence |-> confidence,
                                               citations |-> providerCitations(name),
                                               recommendedActions |-> providerActions(name),
                                               model |-> name],
                                 cost |-> calculateCost(name)])]
    /\ UNCHANGED <<rag, connections, events, streams, citing>>
    /\ UNCHANGED trackerVars
    /\ UNCHANGED workflowVars

\* Promise.all has resolved with at least one answer: the consensus is
\* analysed and the final response created
MergeAnswers ==
    /\ merge.result = <<>>
    /\ merge.responses # <<>>
    /\ \E consensus \in {analyzeConsensus(merge.responses)} :
         merge' = [merge EXCEPT !.result =
                      << [consensus |-> consensus,
                          finalResponse |->
                              createFinalResponse(merge.responses, consensus)] >>]
    /\ UNCHANGED <<rag, connections, events, streams, citing>>
    /\ UNCHANGED trackerVars
    /\ UNCHANGED workflowVars

ConsensusNext ==
    \/ ProviderAnswers
    \/ MergeAnswers

ConsensusSpec == ConsensusInit /\ [][ConsensusNext]_vars

\* ------------------------------------------------------ the citation enhancer
\* enhanceCitations, run over a citation list and over what it returned
\* the citations of a list: with a score, without one or with the score 0; of
\* a source of the first tier, of an unlisted source, or with a url that is
\* no URL
CitationsGiven ==
    {[url |-> u, relevanceScore |-> s] :
        u \in {Url(HostPubmed), Url(HostBlog), BadUrl}, s \in {Undef, 0, 700}}

CitationLists == SeqsUpTo(CitationsGiven, MaxCitations)

\* a citation list is handed to the enhancer
GiveCitations ==
    /\ ~citing.given
    /\ \E cits \in CitationLists :
         citing' = [IdleCiting EXCEPT !.given = TRUE, !.citations = cits]
    /\ UNCHANGED <<rag, connections, events, streams, merge>>
    /\ UNCHANGED trackerVars
    /\ UNCHANGED workflowVars

\* enhanceCitations runs over the list, or over what its last run returned
EnhanceCitations ==
    /\ citing.given
    /\ ~citing.threw
    /\ citing.runs < MaxEnhancerRuns
    /\ IF enhanceCitationsThrows(citing.citations)
       THEN citing' = [citing EXCEPT !.threw = TRUE]
       ELSE \E enhanced \in {enhanceCitations(citing.citations)} :
            citing' = [citing EXCEPT !.citations = enhanced,
                                     !.once = IF citing.runs = 0 THEN enhanced ELSE @,
                                     !.runs = @ + 1]
    /\ UNCHANGED <<rag, connections, events, streams, merge>>
    /\ UNCHANGED trackerVars
    /\ UNCHANGED workflowVars

EnhancerNext ==
    \/ GiveCitations
    \/ EnhanceCitations

EnhancerSpec == ConsensusInit /\ [][EnhancerNext]_vars

\* ------------------------------------------------------------------ claims
Range(s) == {s[i] : i \in 1..Len(s)}

Ended == node = "END"

\* the node that ran last
lastVisited == IF visited = <<>> THEN "" ELSE visited[Len(visited)]

\* the node that ran, or is to run, right after the node n ran
followerOf(n) ==
    LET p == CHOOSE i \in 1..Len(visited) : visited[i] = n
    IN IF p < Len(visited) THEN visited[p + 1] ELSE node

\* multiModelReasoning called its providers and every call was rejected
allProvidersFailed ==
    /\ invocations # <<>>
    /\ \A i \in 1..Len(invocations) : invocations[i].status = "failed"

\* C1: when every provider the reasoning stage called has failed, the run ends
\* with a final response of confidence at most 0.2 and fallbackUsed = true
C1_AllFailedFallback ==
    (Ended /\ allProvidersFailed) =>
        /\ state.finalResponse # <<>>
        /\ "confidence" \in state.finalResponse[1].has
        /\ state.finalResponse[1].confidence <= 200
        /\ state.metadata.fallbackUsed

C1_Witness == Ended /\ allProvidersFailed

\* C2: a stage that throws leaves an error with its name and a retryable flag,
\* and the stage run right after it is the error stage
C2_ThrowRoutesToError ==
    \A k \in 1..Len(state.errors) :
        /\ state.errors[k].node \in Range(visited)
        /\ state.errors[k].retryable \in BOOLEAN
        /\ followerOf(state.errors[k].node) = "error_handler"

C2_Witness ==
    /\ Len(state.errors) > 0
    /\ state.errors[1].node = "multi_model_reasoning"
    /\ "response_validation" \in Range(visited)

\* C3: a run that has reached the end has a final response
C3_EndHasFinalResponse == Ended => state.finalResponse # <<>>

C3_Witness == Ended /\ Len(state.errors) > 0 /\ state.finalResponse # <<>>

C5_RouteAfterRetrieval ==
    (lastVisited = "document_retrieval" /\ Len(state.errors) = 0) =>
        node = IF \/ Len(state.retrievedDocuments) = 0
                  \/ state.processedQuery[1].requiresCitation
               THEN "web_search"
               ELSE "multi_model_reasoning"

C5_Witness ==
    /\ lastVisited = "document_retrieval"
    /\ Len(state.errors) = 0
    /\ state.processedQuery[1].requiresCitation
    /\ Len(state.retrievedDocuments) > 0
    /\ node = "web_search"

\* C6: a query of emergency urgency goes from query_analysis straight to reasoning
C6_EmergencySkipsRetrieval ==
    (/\ lastVisited = "query_analysis"
     /\ Len(state.errors) = 0
     /\ state.processedQuery[1].urgencyLevel = "emergency")
        => node = "multi_model_reasoning"

C6_Witness ==
    /\ lastVisited = "query_analysis"
    /\ state.userQuery = QChestPain
    /\ state.processedQuery[1].urgencyLevel = "emergency"
    /\ node = "document_retrieval"

\* C7: the metformin query is classified medication_question at 0.8, needs
\* citations, and its run has been through web_search when it comes to reasoning
C7_MetforminQuery ==
    (state.userQuery = QMetformin /\ "query_analysis" \in Range(visited)) =>
        /\ state.processedQuery # <<>>
        /\ state.processedQuery[1].intent = [type |-> "medication_question",
                                             confidence |-> 800]
        /\ state.processedQuery[1].requiresCitation
        /\ node = "multi_model_reasoning" => "web_search" \in Range(visited)

C7_Witness ==
    /\ state.userQuery = QMetformin
    /\ node = "multi_model_reasoning"
    /\ "web_search" \notin Range(visited)

\* the providers whose call resolved, in the order they were called
succeeded ==
    LET ok(v) == v.status = "ok"
        done == SelectSeq(invocations, ok)
    IN [i \in 1..Len(done) |-> done[i].provider]

reasoningFailed == \E k \in 1..Len(state.errors) : state.errors[k].node = "multi_model_reasoning"

\* C8: once the consensus call is over, it has failed exactly when every
\* provider it called failed; otherwise its responses are those of the
\* providers that succeeded
C8_PartialFailureTolerated ==
    ("multi_model_reasoning" \in Range(visited) /\ invocations # <<>>) =>
        /\ reasoningFailed <=> succeeded = <<>>
        /\ succeeded # <<>> =>
              /\ Len(state.modelResponses) = Len(succeeded)
              /\ \A i \in 1..Len(succeeded) : state.modelResponses[i].provider = succeeded[i]

C8_Witness ==
    /\ "multi_model_reasoning" \in Range(visited)
    /\ Len(invocations) = 2
    /\ Len(succeeded) = 1
    /\ ~reasoningFailed
    /\ Len(state.modelResponses) = 1

\* C9: the reasoning stage, once entered, is eventually left
C9_ReasoningCompletes ==
    (node = "multi_model_reasoning") ~> (node # "multi_model_reasoning")

C9_Witness ==
    /\ node = "multi_model_reasoning"
    /\ \E i \in 1..Len(invocations) : invocations[i].status = "hung"

\* the entry is in the queue, in a flush or in the cost log
accepted(id) ==
    \/ \E i \in 1..Len(costQueue) : costQueue[i].id = id
    \/ \E i \in 1..Len(flushes) : \E j \in 1..Len(flushes[i].rows) : flushes[i].rows[j].id = id
    \/ \E i \in 1..Len(costLog) : costLog[i].id = id

\* C10: while the budget of a critical entry is being checked, and when the
\* check has raised budget-exceeded, the entry is not in the queue and not stored
C10_CheckBeforeAcceptance ==
    (\/ track.pc = "check"
     \/ track.pc = "threw" /\ track.error = "BudgetExceededError")
        => ~accepted(track.entry[1].id)

C10_Witness ==
    /\ track.pc = "check"
    /\ isCriticalOperation(track.entry[1].operation)
    /\ \E i \in 1..Len(costQueue) : costQueue[i].id = track.entry[1].id

\* the budget check of a critical entry of the user u0 ends (the spend was
\* read), while a daily budget of $10.00 has been set and $9.50 is spent
budgetCheckEnds(cost) ==
    /\ track.pc = "check"
    /\ track'.pc # "check"
    /\ track'.error # "DatabaseError"
    /\ track.entry[1].userId = "u0"
    /\ track.entry[1].totalCost = cost
    /\ getCurrentSpend(costLog, "u0") = Cents(950)
    /\ \E k \in 1..Len(budgetsSet) :
          /\ budgetsSet[k].userId = "u0"
          /\ budgetsSet[k].budgetType = "daily"
          /\ budgetsSet[k].amount = Dollars(10)

\* C11: with a daily budget of $10.00 set and $9.50 spent, the check of a
\* critical entry of $1.00 raises budget-exceeded, and the check of one of
\* $0.40 succeeds and creates an alert
C11_BudgetEnforced ==
    [][/\ budgetCheckEnds(Dollars(1)) =>
            track'.pc = "threw" /\ track'.error = "BudgetExceededError"
       /\ budgetCheckEnds(Cents(40)) =>
            track'.pc = "returned" /\ alerts' = alerts + 1]_vars

C11_Witness ==
    /\ track.pc = "returned"
    /\ track.entry # <<>>
    /\ track.entry[1].totalCost = Dollars(1)
    /\ isCriticalOperation(track.entry[1].operation)
    /\ getCurrentSpend(costLog, "u0") = Cents(950)
    /\ budgetsSet # <<>>

\* a final response a caller can use: it has a text and a confidence
validFinalResponse(fr) ==
    fr # <<>> /\ {"content", "confidence"} \subseteq fr[1].has

\* C12: a budget-exceeded failure of the cost tracker does not let the run end
\* normally, and a run that ends after any other failure has a valid final
\* response
C12_OnlyBudgetExceededStops ==
    [][/\ (/\ node = "cost_tracking"
           /\ track.pc = "threw"
           /\ track.error = "BudgetExceededError") => node' # "END"
       /\ (node # "END" /\ node' = "END" /\ Len(state'.errors) > 0)
             => validFinalResponse(state'.finalResponse)]_vars

C12_Witness ==
    /\ Ended
    /\ \E k \in 1..Len(state.errors) : state.errors[k].node = "cost_tracking"
    /\ ~validFinalResponse(state.finalResponse)

\* the ids trackCost has given out
trackedIds == 1..(nextId - 1)

\* C13: every tracked entry is on the queue, in a flush in progress, or stored
C13_NoEntryLost == \A id \in trackedIds : accepted(id)

C13_Witness ==
    /\ flushes = <<>>
    /\ \E id \in trackedIds :
          /\ ~accepted(id)
          /\ \E i \in 1..Len(taken) : taken[i] = id

\* C14: unless the conversion of a queued entry makes every flush fail, the
\* queue is shorter than the batch size: the trackCost that makes it reach
\* the batch size flushes it, as does a timer tick
C14_QueueBelowBatchSize ==
    ~conversionThrows(costQueue) => Len(costQueue) < BatchSize

C14_Witness ==
    /\ track.pc = "flushing"
    /\ costQueue = <<>>
    /\ Len(taken) >= BatchSize
    /\ \E i \in 1..Len(flushes) : flushes[i].owner = "track"

\* how many times x occurs in the sequence s
occurrences(s, x) == Cardinality({i \in 1..Len(s) : s[i] = x})

\* the ids of the entries ever put on the queue
everQueued == trackedIds \cup Range(idsOf(costQueue)) \cup Range(taken)

\* C15: every entry put on the queue is still on it, once, or was taken off
\* it by one flush, whatever the interleaving of the calls and the flushes
C15_EachEntryOneFlush ==
    \A id \in everQueued :
        occurrences(idsOf(costQueue), id) + occurrences(taken, id) = 1

C15_Witness ==
    /\ track.pc \in {"flushing", "check"}
    /\ \E i, j \in 1..Len(flushes) :
          flushes[i].owner = "timer" /\ flushes[j].owner = "other"
    /\ taken # <<>>

\* the hits of the partitions that did not fail are the ones the call returned
healthyHitsReturned ==
    /\ rag.pc = "returned"
    /\ "global" \in rag.failed => rag.globalMatches = <<>>
    /\ "session" \in rag.failed => rag.sessionMatches = <<>>

\* C16: a queryMedicalKnowledge call in which the search of a partition failed
\* does not throw: it returns, with the hits of the other partition
C16_PartitionFailureIsolated ==
    (rag.pc \in {"returned", "threw"} /\ rag.failed # {}) => healthyHitsReturned

C16_Witness ==
    /\ rag.pc = "threw"
    /\ rag.failed = {"session"}
    /\ rag.globalMatches = <<"g1">>

\* the web_search stage is over
webSearchLeft == node = "web_search" /\ node' # "web_search"

\* C17: the web_search stage hands an evidence array to the reasoning stage and
\* records no error; when the search provider failed, the array holds the
\* placeholder results
C17_SearchNeverRaises ==
    [][webSearchLeft =>
         /\ node' = "multi_model_reasoning"
         /\ state'.errors = state.errors
         /\ state'.searchResults # <<>>
         /\ (local # <<>> /\ local[2] \in ProviderFailures) =>
               state'.searchResults[1] = filterMedicalResults(MockSearchResults)]_vars

C17_Witness ==
    /\ node = "multi_model_reasoning"
    /\ lastVisited = "web_search"
    /\ state.searchResults = <<>>
    /\ \E k \in 1..Len(state.errors) : state.errors[k].node = "web_search"

\* a stage of the run is over while the session's event stream is open
stageEndsWhileListening ==
    /\ SessionId \in DOMAIN connections
    /\ node \in Nodes
    /\ node' # node

\* C18: a stage that ends while the session's event stream is open enqueues an
\* event of the session, and the stage that ends the run enqueues the event
\* "complete" last
C18_ProgressEventsEmitted ==
    [][stageEndsWhileListening =>
         /\ Len(events') > Len(events)
         /\ events'[Len(events')].sessionId = SessionId
         /\ node' = "END" => events'[Len(events')].type = "complete"]_vars

C18_Witness ==
    /\ Ended
    /\ SessionId \in DOMAIN connections
    /\ Len(visited) >= 5
    /\ Len(events) = 1
    /\ events[1].type = "progress"

\* no stage has run twice
noStageTwice ==
    \A i, j \in 1..Len(visited) : i # j => visited[i] # visited[j]

\* C19: no stage runs twice in a run, END is entered only after cost_tracking
\* or error_handler, and a run whose external calls all return reaches END
C19_NoRetryAndTermination ==
    /\ [](noStageTwice /\ (Ended => lastVisited \in {"cost_tracking", "error_handler"}))
    /\ <>Ended

C19_Witness ==
    /\ Ended
    /\ lastVisited = "cost_tracking"
    /\ state.errors # <<>>
    /\ Len(visited) >= 7

\* the consensus call ends with exactly one provider's call resolved
oneAnswerMerged ==
    /\ node = "multi_model_reasoning" /\ phase = "await"
    /\ node' # node
    /\ Len(succeeded) = 1

\* the one answer: what the provider's medicalComplete returned
theAnswer ==
    LET i == CHOOSE k \in 1..Len(invocations) : invocations[k].status = "ok"
    IN [content |-> invocations[i].content,
        confidence |-> providerConfidence(invocations[i].provider),
        citations |-> providerCitations(invocations[i].provider),
        recommendedActions |-> providerActions(invocations[i].provider)]

\* C20: when exactly one provider's call resolved, no consensus is recorded and
\* the final response has the text, the confidence, the citations and the
\* recommended actions of that answer
C20_SingleAnswerVerbatim ==
    [][oneAnswerMerged =>
         /\ state'.metadata.consensus = <<>>
         /\ state'.finalResponse # <<>>
         /\ ~state'.finalResponse[1].consensus
         /\ state'.finalResponse[1].content = theAnswer.content
         /\ state'.finalResponse[1].confidence = theAnswer.confidence
         /\ state'.finalResponse[1].citations = theAnswer.citations
         /\ state'.finalResponse[1].recommendedActions = theAnswer.recommendedActions]_vars

C20_Witness ==
    /\ lastVisited = "multi_model_reasoning"
    /\ Len(invocations) = 2
    /\ succeeded = <<"openai">>
    /\ state.finalResponse # <<>>
    /\ state.finalResponse[1].content = AnsRest
    /\ state.finalResponse[1].providersUsed = <<"openai">>
    /\ state.metadata.consensus = <<>>

\* the answers that were merged, and what they were merged to
mergedAnswers == [i \in 1..Len(merge.responses) |-> merge.responses[i].response]

mergedConfidence(i) ==
    IF mergedAnswers[i].confidence = Undef THEN 0 ELSE mergedAnswers[i].confidence

\* the merged narrative: empty without a consensus
mergedNarrative ==
    IF merge.result[1].consensus = <<>> THEN <<>>
    ELSE merge.result[1].consensus[1].agreedContent

\* the final response is answer i, but for its text when a merge exists
builtOn(i) ==
    /\ merge.result[1].finalResponse.model = mergedAnswers[i].model
    /\ merge.result[1].finalResponse.content =
          IF mergedNarrative # <<>> THEN mergedNarrative ELSE mergedAnswers[i].content

\* C21: the final response is built on an answer no other answer reports a
\* higher confidence than; its text is the merged narrative when that is not
\* empty, and the text of that answer otherwise
C21_BuiltOnMostConfident ==
    merge.result # <<>> =>
        \E i \in 1..Len(mergedAnswers) :
            /\ \A j \in 1..Len(mergedAnswers) : mergedConfidence(j) <= mergedConfidence(i)
            /\ builtOn(i)

\* three answers, the second the most confident, without a common sentence
C21_Witness ==
    /\ merge.result # <<>>
    /\ Len(mergedAnswers) = 3
    /\ mergedConfidence(2) > mergedConfidence(1)
    /\ mergedConfidence(2) > mergedConfidence(3)
    /\ mergedNarrative = <<>>
    /\ merge.result[1].finalResponse.content = mergedAnswers[2].content

\* the sentences of answer i
sentencesOfAnswer(i) == Range(sentencesOf(mergedAnswers[i].content))

\* more than one answer has the sentence
inSeveralAnswers(s) ==
    \E i, j \in 1..Len(mergedAnswers) :
        i # j /\ s \in sentencesOfAnswer(i) /\ s \in sentencesOfAnswer(j)

\* the sentences more than one answer has, each once, in the order of the answers
sharedSentences ==
    LET all == flatten([i \in 1..Len(mergedAnswers) |->
                           sentencesOf(mergedAnswers[i].content)])
        keep(k) == inSeveralAnswers(all[k]) /\ \A j \in 1..(k - 1) : all[j] # all[k]
        idx == SelectSeq([k \in 1..Len(all) |-> k], keep)
    IN [k \in 1..Len(idx) |-> all[idx[k]]]

\* C22: with two or more answers the merged narrative is made of the
\* sentences that more than one answer has, and of no other sentence
C22_OnlySharedSentences ==
    (merge.result # <<>> /\ Len(mergedAnswers) >= 2) =>
        mergedNarrative = join(sharedSentences)

\* an answer that repeats itself and an answer without any of its sentences
\* are merged to the sentences of the first
C22_Witness ==
    /\ merge.result # <<>>
    /\ Len(mergedAnswers) = 2
    /\ mergedAnswers[1].content = AnsTwice
    /\ mergedAnswers[2].content = Filler(200)
    /\ mergedNarrative # <<>>
    /\ merge.result[1].finalResponse.content = mergedNarrative

\* the lengths of the answers
answerLengths == [i \in 1..Len(mergedAnswers) |-> Len(mergedAnswers[i].content)]

\* the length of answer i is off the mean length by more than half the mean
\* (|l - sum/n| > sum/2n, with both sides multiplied by 2n)
offTheMean(i) ==
    2 * Abs(answerLengths[i] * Len(answerLengths) - SumSeq(answerLengths))
        > SumSeq(answerLengths)

signalled ==
    "Response lengths vary significantly between models"
        \in Range(merge.result[1].consensus[1].disagreements)

\* C23: with two or more answers the consensus carries the signal that the
\* lengths vary significantly exactly when the length of some answer is off
\* the mean by more than half the mean
C23_SignalIffOffTheMean ==
    (merge.result # <<>> /\ Len(mergedAnswers) >= 2) =>
        (signalled <=> \E i \in 1..Len(mergedAnswers) : offTheMean(i))

\* answers of 61, 61 and 122 characters: the longest is exactly half the mean
\* above the mean, and the signal is there
C23_Witness ==
    /\ merge.result # <<>>
    /\ answerLengths = <<61, 61, 122>>
    /\ signalled

\* two answers of 200 and 900 characters carry the signal
C23_Scenario200And900 ==
    (merge.result # <<>> /\ answerLengths = <<200, 900>>) => signalled

\* C24: with two or more answers the confidence of the consensus is the mean
\* of the confidences the answers report (in thousandths, rounded down)
C24_MeanOfConfidences ==
    (merge.result # <<>> /\ Len(mergedAnswers) >= 2) =>
        LET n == Len(mergedAnswers)
            sum == SumSeq([i \in 1..n |-> mergedAnswers[i].confidence])
            score == merge.result[1].consensus[1].confidence
        IN score * n <= sum /\ sum < (score + 1) * n

\* answers that report 0 and 0.9 get the score 0.7
C24_Witness ==
    /\ merge.result # <<>>
    /\ Len(mergedAnswers) = 2
    /\ mergedAnswers[1].confidence = 0
    /\ mergedAnswers[2].confidence = 900
    /\ merge.result[1].consensus[1].confidence = 700

\* the urls of a citation list
urlsOf(cits) == {cits[i].url : i \in 1..Len(cits)}

\* C25: what the citation enhancer returns when it runs again over what it
\* returned has the urls, and the citations with their scores, of its first run
C25_EnhancerIdempotent ==
    citing.runs >= 2 =>
        /\ urlsOf(citing.citations) = urlsOf(citing.once)
        /\ citing.citations = citing.once

\* a second run over two citations of one source, one of which had no score
C25_Witness ==
    /\ citing.runs = 2
    /\ Len(citing.citations) = 2
    /\ citing.citations[1] = [url |-> Url(HostPubmed), relevanceScore |-> 950]
    /\ citing.citations[2] = [url |-> Url(HostPubmed), relevanceScore |-> 700]

\* the citation_enhancement stage ends without recording an error
citationsEnhanced ==
    /\ node = "citation_enhancement"
    /\ node' # "citation_enhancement"
    /\ Len(state'.errors) = Len(state.errors)

\* the stage puts the enhanced citations of the request state in the place of
\* the citations of the final response
citationsReplaced ==
    [][citationsEnhanced =>
          /\ state'.finalResponse # <<>>
          /\ state'.finalResponse[1].citations = enhanceCitations(state.citations)
          /\ state'.citations = enhanceCitations(state.citations)]_vars

\* the run is over, never visited web_search and has a final response
endedWithoutSearch ==
    /\ Ended
    /\ "web_search" \notin Range(visited)
    /\ state.finalResponse # <<>>

stageAfter(from, failed, documents, citation) ==
    CASE from = "query_analysis" ->
            IF failed THEN "error_handler"
            ELSE IF documents THEN "document_retrieval"
            ELSE IF citation THEN "web_search"
            ELSE "multi_model_reasoning"
      [] from = "document_retrieval" ->
            IF failed THEN "error_handler"
            ELSE IF citation THEN "web_search"
            ELSE "multi_model_reasoning"
      [] OTHER -> staticEdge(from)

activeBudget(amount) ==
    \E k \in 1..Len(budgetsSet) :
        /\ budgetsSet[k].userId = "u0"
        /\ budgetsSet[k].isActive
        /\ budgetsSet[k].amount = amount

\* what the user u0 has spent: the rows of the cost log, the rows on their way
\* to it and the critical entries in the queue
spendWithQueued ==
    LET mine(e) == e.userId = "u0" /\ isCriticalOperation(e.operation)
        queued == SelectSeq(costQueue, mine)
        flushing == flatten([i \in 1..Len(flushes) |-> flushes[i].rows])
    IN getCurrentSpend(costLog, "u0")
       + getCurrentSpend(flushing, "u0")
       + SumSeq([i \in 1..Len(queued) |-> queued[i].totalCost])

\* trackCost takes in an entry of a critical operation
criticalEntryAccepted ==
    /\ costQueue' # costQueue \/ flushes' # flushes
    /\ track'.entry # <<>>
    /\ track'.entry # track.entry
    /\ isCriticalOperation(track'.entry[1].operation)

\* C28: while the user has an active budget of $10.00, no critical entry is
\* accepted that takes the spend, the queued entries counted, over the budget
C28_SpendWithinBudget ==
    [][(activeBudget(Dollars(10)) /\ criticalEntryAccepted) =>
          spendWithQueued' <= Dollars(10)]_vars

\* with a budget of $10.00 set and $9.50 in the cost log, a critical entry of
\* $1.00 is queued and its trackCost has returned
C28_Witness ==
    /\ activeBudget(Dollars(10))
    /\ track.pc = "returned"
    /\ track.entry # <<>>
    /\ \E i \in 1..Len(costQueue) :
          /\ costQueue[i].id = track.entry[1].id
          /\ isCriticalOperation(costQueue[i].operation)
          /\ costQueue[i].totalCost = Dollars(1)
    /\ spendWithQueued = Cents(1050)

\* the stream c is the one registered for the session
registeredStream(c) == SessionId \in DOMAIN connections /\ connections[SessionId] = c

\* a send to the session failed: its connection was deleted, nothing else changed
sendFailed ==
    /\ streams' = streams
    /\ events' = events
    /\ connections' = deleteKey(connections, SessionId)

\* C29: a stream registered for a session stays registered until it is closed
\* itself or a send to it fails; opening or closing another stream of the
\* session does not unregister it
C29_StaysRegistered ==
    [][\A c \in streams :
          registeredStream(c) =>
              \/ registeredStream(c)'
              \/ c \notin streams'
              \/ sendFailed]_vars

\* two streams of the session are open; the first lost its place to the
\* second, and the update went to the second only
C29_Witness ==
    /\ streams = {1, 2}
    /\ registeredStream(2)
    /\ events # <<>>
    /\ events[Len(events)].type = "step_start"
    /\ events[Len(events)].stream = 2

\* the reasoning stage calls multiModelReasoning, with a processed query
reasoningCalled ==
    /\ node = "multi_model_reasoning"
    /\ phase = "run"
    /\ state.processedQuery # <<>>
    /\ <<node, phase, invocations>>' # <<node, phase, invocations>>

\* the named providers that are registered and enabled
namedAndRegistered == {"openai", "anthropic"} \cap registered

\* the error the reasoning stage recorded last
reasoningErrorRecorded(st) ==
    /\ st.errors # <<>>
    /\ st.errors[Len(st.errors)].node = "multi_model_reasoning"

====
